---- MODULE Spec2Model ----
(***************************************************************************)
(* The concurrent encode dispatcher of simpleEncoder.                      *)
(*                                                                         *)
(* core::Encoder (src/core/Encoder.h) owns the job map                     *)
(* m_to_be_encoded_files, the cancellation flag m_cancelled and the        *)
(* global process_mutex.  start_encoding builds the map, creates           *)
(* m_thread_number pthreads and joins them; every worker runs the claim    *)
(* loop of the `worker` lambda.  cancel_encoding is called from another    *)
(* thread at any time.                                                     *)
(*                                                                         *)
(* Files are numbered 1..n in the order of the std::map's keys, so the     *)
(* "first entry with processed == false" of the range-for is the smallest  *)
(* unclaimed number.  0 stands for the empty std::string.                  *)
(***************************************************************************)
EXTENDS Naturals, FiniteSets, Sequences, TLC

\* Bounds of the model.
MaxFiles == 3
MaxThreads == 2

Files == 1..MaxFiles
Workers == 1..MaxThreads

\* common::ErrorCode values that the dispatcher returns.
ERROR_NONE == "ERROR_NONE"
ERROR_NOT_FOUND == "ERROR_NOT_FOUND"
ERROR_PTHREAD_CREATE == "ERROR_PTHREAD_CREATE"
ERROR_PTHREAD_JOIN == "ERROR_PTHREAD_JOIN"
ERROR_CANCELLED == "ERROR_CANCELLED"
\* Any per-file failure code of process_single_file (WAV_INVALID, READ_FILE, LAME, ...).
ERROR_FILE == "ERROR_FILE"
\* The per-file failure codes of process_single_file.
ERROR_READ_FILE == "ERROR_READ_FILE"
ERROR_WAV_INVALID == "ERROR_WAV_INVALID"
ERROR_LAME == "ERROR_LAME"
ERROR_FLAC == "ERROR_FLAC"
ERROR_IO == "ERROR_IO"
\* No value yet: the call has not returned.
NoValue == "none"

VARIABLES
    directory,              \* what scan_input_directory found at the path it was given
    scan_ret,               \* value returned by scan_input_directory
    m_input_files,          \* set of scanned files (std::vector<std::string>)
    m_thread_number,        \* constructor argument
    m_cancelled,            \* std::atomic<bool>
    m_to_be_encoded_files,  \* job map: file -> processed flag
    process_mutex,          \* 0 when free, else the worker holding it
    main_pc,                \* position of the thread calling start_encoding
    spawn_i,                \* loop index of the pthread_create loop
    join_i,                 \* loop index of the pthread_join loop
    ret,                    \* value returned by start_encoding
    join_err,               \* a pthread_join of the run returned non-zero
    cancel_ret,             \* value returned by the last cancel_encoding call
    pc,                     \* position of every worker thread
    found_file,             \* worker local
    input_file,             \* worker local (0: empty string)
    cancelled_local,        \* the `bool cancelled` local of the Opus/FLAC loop
    invoked,                \* file -> number of encode attempts started
    results,                \* file -> result of its last finished attempt
    cancel_in_run,          \* the flag was set at some moment of the run
    cancel_unclaimed,       \* cancel_encoding was called in the run with a file unclaimed
    late_claims,            \* worker -> files it claimed after a cancellation of the run
    m_mutex,                \* std::mutex of the status log: 0 when free, else its holder
    status_pc,              \* position of every worker in its status callbacks
    status_end,             \* the end of m_status as the worker's emplace_back read it
    status_sent,            \* worker -> status callbacks that have returned
    other_input_path,       \* a second file of the same scan
    other_output_file,      \* the output path computed for it
    id3_pos,                \* pos of Mp3FileWrapper::get_id3tags
    id3tags,                \* the ID3Tag blocks it has pushed
    crashed,                \* the process died of undefined behaviour
    psf_format,             \* the encoder class whose per-file code runs
    psf_pc,                 \* "idle", "running", "exited" or "terminated"
    psf_file,               \* the file being processed (0: none yet)
    psf_step,               \* index of the step of the per-file code that is next
    psf_channels,           \* header.channels of the file being processed
    psf_held,               \* resources acquired for the file and not released
    psf_freed,              \* resources acquired for the file and released
    psf_double,             \* a released resource was released again
    m_status,               \* the status events, in the order of the callbacks
    written,                \* file -> number of times its output file was created
    psf_results,            \* file -> value its processing returned
    psf_input_path,         \* the input_file string handed to process_single_file
    psf_output_dir,         \* the output_dir string
    psf_extension,          \* the format's extension (MP3_EXT, FLAC_EXT)
    psf_output_file,        \* the output_file string it computes (empty: not yet)
    wav_exists,             \* the file named by filename exists and can be opened
    wav_bytes,              \* the bytes of that file
    contents,               \* std::vector<uint8_t> contents of validate
    wav_pc,                 \* position of the validate call
    wav_pos,                \* uint32_t pos of validate
    header,                 \* the WaveHeader validate fills (<< >>: field not written)
    wav_valid,              \* value validate returned
    wav_oob,                \* a read at or beyond contents.size() happened
    wav_overrun,            \* a chunk the walk passed declares a size that ends beyond the file
    left,                   \* int16_t* left of get_wave_data, as the array it points to
    right,                  \* int16_t* right (<< >>: nullptr or an array of no element)
    wav_got,                \* value get_wave_data returned
    id3_bytes,              \* the four bytes read_as_uint32_big decodes
    id3_pc,                 \* position of the read_as_uint32_big call
    id3_offset,             \* the value it returned (id3tag.offset)
    cli_main,               \* which main function runs
    cli_env,                \* what main meets: command line, directories, factory
    cli_pc,                 \* position of main
    exit_code               \* value main returned

\* The state of one worker's per-file processing.
file_vars == <<psf_format, psf_pc, psf_file, psf_step, psf_channels, psf_held,
               psf_freed, psf_double, m_status, written, psf_results>>

\* What a run of the dispatcher leaves alone: the result of the scan, the
\* constructor's thread count and the state of the per-file processing, which the
\* dispatcher's specifications abstract as position "process".
\* The strings of the output path computation.
path_vars == <<psf_input_path, psf_output_dir, psf_extension, psf_output_file>>

\* A WaveHeader of which validate has written no field yet.
NoHeader ==
    [riff |-> << >>, wave |-> << >>, fmt |-> << >>, data |-> << >>, format |-> 0,
     channels |-> 0, chunk_size |-> [q |-> 0, r |-> 0], data_size |-> [q |-> 0, r |-> 0],
     block_align |-> 0, bits_per_sample |-> 0]

\* What get_wave_data hands back.
data_vars == <<left, right, wav_got>>

\* The state of one WaveFileWrapper::validate call and the get_wave_data after it.
wav_vars == <<wav_exists, wav_bytes, contents, wav_pc, wav_pos, header, wav_valid, wav_oob,
              wav_overrun, data_vars>>

\* A command line and surroundings of which nothing is known.
NoEnv == [parse |-> NoValue, canonical |-> FALSE, output_dir |-> FALSE, encoder |-> FALSE]

\* One Helper::read_as_uint32_big call.
id3_vars == <<id3_bytes, id3_pc, id3_offset>>

\* The main function of the command line tool.
cli_vars == <<cli_main, cli_env, cli_pc, exit_code>>

\* Encoder::on_encoding_status under several workers.
status_vars == <<m_mutex, status_pc, status_end, status_sent>>

\* The state of the further unit specifications.
\* A second file of the run and its output path.
pair_vars == <<other_input_path, other_output_file>>

\* The walk of Mp3FileWrapper::get_id3tags.
tags_vars == <<id3_pos, id3tags>>

unit_vars == <<status_vars, pair_vars, tags_vars>>

config_vars == <<directory, scan_ret, m_input_files, m_thread_number, file_vars,
                 path_vars, wav_vars, id3_vars, cli_vars, unit_vars>>
main_vars == <<main_pc, spawn_i, join_i, ret, join_err>>
local_vars == <<found_file, input_file, cancelled_local>>
\* What a step that leaves the cancellation history alone keeps.
cancel_vars == <<cancel_unclaimed, late_claims>>

ghost_vars == <<invoked, results, cancel_in_run, cancel_vars>>

vars == <<config_vars, m_cancelled, m_to_be_encoded_files, process_mutex, main_vars,
          cancel_ret, pc, local_vars, ghost_vars, crashed>>

----------------------------------------------------------------------------
\* Helpers

\* The files of the job map that are still unclaimed.
Unclaimed == {f \in DOMAIN m_to_be_encoded_files : ~m_to_be_encoded_files[f]}

\* The entry the range-for over the std::map stops at: the first unclaimed key.
FirstUnclaimed == CHOOSE f \in Unclaimed : \A g \in Unclaimed : f <= g

\* The workers start_encoding has created so far.
Created == {w \in Workers : pc[w] # "none"}

\* The workers that are still running.
Live == {w \in Created : pc[w] # "exited"}

\* A run of start_encoding is in progress (the map is built, the call has not returned).
Running == main_pc \in {"spawn", "join"}

----------------------------------------------------------------------------
\* Construction and directory scan

\* No per-file processing has begun.
FileIdle ==
    /\ psf_pc = "idle"
    /\ psf_file = 0
    /\ psf_step = 0
    /\ psf_channels = 0
    /\ psf_held = {}
    /\ psf_freed = {}
    /\ psf_double = FALSE
    /\ m_status = << >>
    /\ written = [f \in Files |-> 0]
    /\ psf_results = [f \in Files |-> NoValue]

\* No output path is being computed.
PathIdle ==
    /\ psf_input_path = << >>
    /\ psf_output_dir = << >>
    /\ psf_extension = << >>
    /\ psf_output_file = << >>

\* No file is being validated.
WavIdle ==
    /\ wav_exists = FALSE
    /\ wav_bytes = << >>
    /\ contents = << >>
    /\ wav_pc = "idle"
    /\ wav_pos = [q |-> 0, r |-> 0]
    /\ header = NoHeader
    /\ wav_valid = FALSE
    /\ wav_oob = FALSE
    /\ wav_overrun = FALSE
    /\ left = << >>
    /\ right = << >>
    /\ wav_got = FALSE

\* No tag size is being decoded.
Id3Idle ==
    /\ id3_bytes = << >>
    /\ id3_pc = "idle"
    /\ id3_offset = 0

\* The encoder is not driven by a main function.
CliIdle ==
    /\ cli_main = NoValue
    /\ cli_env = NoEnv
    /\ cli_pc = "idle"
    /\ exit_code = 0

\* No worker reports a status.
StatusIdle ==
    /\ m_mutex = 0
    /\ status_pc = [w \in Workers |-> "idle"]
    /\ status_end = [w \in Workers |-> 0]
    /\ status_sent = [w \in Workers |-> 0]

\* No second file is looked at.
PairIdle ==
    /\ other_input_path = << >>
    /\ other_output_file = << >>

\* No MP3 file is being parsed.
TagsIdle ==
    /\ id3_pos = 0
    /\ id3tags = << >>

\* The further unit specifications are at rest.
UnitIdle ==
    /\ StatusIdle
    /\ PairIdle
    /\ TagsIdle

\* The state every thread of the dispatcher starts from.
DispatcherIdle ==
    /\ m_cancelled = FALSE
    /\ m_to_be_encoded_files = << >>
    /\ process_mutex = 0
    /\ spawn_i = 0
    /\ join_i = 0
    /\ ret = NoValue
    /\ join_err = FALSE
    /\ cancel_ret = NoValue
    /\ pc = [w \in Workers |-> "none"]
    /\ found_file = [w \in Workers |-> FALSE]
    /\ input_file = [w \in Workers |-> 0]
    /\ cancelled_local = [w \in Workers |-> FALSE]
    /\ invoked = [f \in Files |-> 0]
    /\ results = [f \in Files |-> NoValue]
    /\ cancel_in_run = FALSE
    /\ cancel_unclaimed = FALSE
    /\ late_claims = [w \in Workers |-> 0]
    /\ crashed = FALSE

Init ==
    /\ directory = NoValue
    /\ scan_ret = NoValue
    /\ m_input_files = {}
    /\ m_thread_number \in 0..MaxThreads
    /\ main_pc = "constructed"
    /\ DispatcherIdle
    /\ UnitIdle
    /\ psf_format = NoValue
    /\ FileIdle
    /\ PathIdle
    /\ WavIdle
    /\ Id3Idle
    /\ CliIdle

\* What the scan can meet at the path: no directory, a directory that cannot be
\* read through, a directory without entries, a directory with entries.
DirectoryStates == {"missing", "unreadable", "empty", "listed"}

\* A scan that reports a result without any valid file as not found.
ScanResult_NotFoundWhenEmpty(n) == IF n = 0 THEN ERROR_NOT_FOUND ELSE ERROR_NONE
\* The value scan_input_directory returns when directory_exists and
\* get_file_paths have both succeeded, for a result of n valid files.
ScanResult(n) == ERROR_NONE

\* scan_input_directory: ERROR_NOT_FOUND when directory_exists or get_file_paths
\* fails (m_input_files is left alone); otherwise the listed entries that fail
\* WaveFileWrapper::validate are erased, the n that remain become m_input_files.
scan_input_directory ==
    /\ ~crashed
    /\ main_pc = "constructed"
    /\ \E d \in DirectoryStates :
         /\ directory' = d
         /\ IF d \in {"missing", "unreadable"}
              THEN /\ scan_ret' = ERROR_NOT_FOUND
                   /\ UNCHANGED m_input_files
              ELSE \E entries \in 0..MaxFiles :
                     /\ (d = "empty") = (entries = 0)
                     /\ \E n \in 0..entries :
                          /\ m_input_files' = 1..n
                          /\ scan_ret' = ScanResult(n)
    /\ main_pc' = "ready"
    /\ UNCHANGED <<m_thread_number, m_cancelled, m_to_be_encoded_files, process_mutex,
                   spawn_i, join_i, ret, cancel_ret, pc, local_vars, ghost_vars, crashed,
                   join_err, file_vars, path_vars, wav_vars, id3_vars,
                   cli_vars, unit_vars>>

----------------------------------------------------------------------------
\* Encoder::start_encoding (src/core/Encoder.h), the calling thread

\* Mutant of start_encoding: the empty-set check is missing.
start_encoding_SkipsEmptyCheck ==
    /\ ~crashed
    /\ main_pc = "ready"
    /\ m_cancelled' = FALSE
    /\ m_to_be_encoded_files' = [f \in m_input_files |-> FALSE]
    /\ cancel_in_run' = FALSE
    /\ cancel_unclaimed' = FALSE
    /\ late_claims' = [w \in Workers |-> 0]
    /\ main_pc' = "spawn"
    /\ UNCHANGED <<config_vars, process_mutex, spawn_i, join_i, ret, cancel_ret, pc,
                   local_vars, invoked, results, crashed, join_err>>

\* Entry: the empty-set check, the reset of the flag and the build of the job map.
start_encoding ==
    /\ ~crashed
    /\ main_pc = "ready"
    /\ IF m_input_files = {}
         THEN /\ ret' = ERROR_NOT_FOUND
              /\ main_pc' = "returned"
              /\ UNCHANGED <<m_cancelled, m_to_be_encoded_files, cancel_in_run,
                             cancel_vars>>
         ELSE /\ m_cancelled' = FALSE
              /\ m_to_be_encoded_files' = [f \in m_input_files |-> FALSE]
              /\ cancel_in_run' = FALSE
              /\ cancel_unclaimed' = FALSE
              /\ late_claims' = [w \in Workers |-> 0]
              /\ main_pc' = "spawn"
              /\ ret' = ret
    /\ UNCHANGED <<config_vars, process_mutex, spawn_i, join_i, cancel_ret, pc,
                   local_vars, invoked, results, crashed, join_err>>

\* One pthread_create of the creation loop that succeeds: the worker starts at the
\* head of its thread function, with found_file = true and an empty input_file.
CreateWorker ==
    /\ ~crashed
    /\ main_pc = "spawn"
    /\ spawn_i < m_thread_number
    /\ pc' = [pc EXCEPT ![spawn_i + 1] = "top"]
    /\ found_file' = [found_file EXCEPT ![spawn_i + 1] = TRUE]
    /\ input_file' = [input_file EXCEPT ![spawn_i + 1] = 0]
    /\ spawn_i' = spawn_i + 1
    /\ UNCHANGED <<config_vars, m_cancelled, m_to_be_encoded_files, process_mutex,
                   main_pc, join_i, ret, cancel_ret, cancelled_local, ghost_vars,
                   crashed, join_err>>

\* One pthread_create that fails: start_encoding returns at once, joining nothing.
CreateWorkerFails ==
    /\ ~crashed
    /\ main_pc = "spawn"
    /\ spawn_i < m_thread_number
    /\ ret' = ERROR_PTHREAD_CREATE
    /\ main_pc' = "returned"
    /\ UNCHANGED <<config_vars, m_cancelled, m_to_be_encoded_files, process_mutex,
                   spawn_i, join_i, cancel_ret, pc, local_vars, ghost_vars, crashed, join_err>>

\* Mutant of CreateDone: the creation loop also stops at the number of files.
CreateDone_StopsAtFileCount ==
    /\ ~crashed
    /\ main_pc = "spawn"
    /\ (spawn_i = m_thread_number \/ spawn_i = Cardinality(m_input_files))
    /\ main_pc' = "join"
    /\ join_i' = 0
    /\ UNCHANGED <<config_vars, m_cancelled, m_to_be_encoded_files, process_mutex,
                   spawn_i, ret, cancel_ret, pc, local_vars, ghost_vars, crashed, join_err>>

\* The creation loop ends: pthread_attr_destroy, then the join loop.
CreateDone ==
    /\ ~crashed
    /\ main_pc = "spawn"
    /\ spawn_i = m_thread_number
    /\ main_pc' = "join"
    /\ join_i' = 0
    /\ UNCHANGED <<config_vars, m_cancelled, m_to_be_encoded_files, process_mutex,
                   spawn_i, ret, cancel_ret, pc, local_vars, ghost_vars, crashed, join_err>>

\* pthread_join(threads[join_i]) returns 0 once that worker has exited.
JoinWorker ==
    /\ ~crashed
    /\ main_pc = "join"
    /\ join_i < m_thread_number
    /\ pc[join_i + 1] = "exited"
    /\ join_i' = join_i + 1
    /\ UNCHANGED <<config_vars, m_cancelled, m_to_be_encoded_files, process_mutex,
                   main_pc, spawn_i, ret, cancel_ret, pc, local_vars, ghost_vars,
                   crashed, join_err>>

\* pthread_join returns non-zero, without waiting for the worker.  The join loop
\* discards the value and goes on to the next thread.
JoinWorkerFails ==
    /\ ~crashed
    /\ main_pc = "join"
    /\ join_i < m_thread_number
    /\ join_err' = TRUE
    /\ join_i' = join_i + 1
    /\ UNCHANGED <<config_vars, m_cancelled, m_to_be_encoded_files, process_mutex,
                   main_pc, spawn_i, ret, cancel_ret, pc, local_vars, ghost_vars,
                   crashed>>

\* Mutant of JoinedResult: a failed file turns the aggregate result into an error.
JoinedResult_ReflectsFailures ==
    IF \E f \in Files : results[f] = ERROR_FILE THEN ERROR_FILE ELSE ERROR_NONE

\* The value start_encoding returns after the join loop.
JoinedResult == ERROR_NONE

\* After the last join: return.
ReturnJoined ==
    /\ ~crashed
    /\ main_pc = "join"
    /\ join_i = m_thread_number
    /\ ret' = JoinedResult
    /\ main_pc' = "returned"
    /\ UNCHANGED <<config_vars, m_cancelled, m_to_be_encoded_files, process_mutex,
                   spawn_i, join_i, cancel_ret, pc, local_vars, ghost_vars, crashed, join_err>>

----------------------------------------------------------------------------
\* Encoder::cancel_encoding, called from any other thread at any time

cancel_encoding ==
    /\ ~crashed
    /\ m_cancelled' = TRUE
    /\ cancel_ret' = ERROR_CANCELLED
    /\ cancel_in_run' = (cancel_in_run \/ Running)
    /\ cancel_unclaimed' = (cancel_unclaimed \/ (Running /\ Unclaimed # {}))
    /\ late_claims' = late_claims
    /\ UNCHANGED <<config_vars, m_to_be_encoded_files, process_mutex, main_vars, pc,
                   local_vars, invoked, results, crashed>>

----------------------------------------------------------------------------
\* The `worker` lambda of Encoder::start_encoding (src/core/Encoder.h)

\* Mutant of LoopContinues: the loop-top condition does not read the flag.
LoopContinues_IgnoresFlag(w) == found_file[w]

\* Whether the loop-top condition lets worker w begin another iteration.
LoopContinues(w) == ~m_cancelled /\ found_file[w]

\* while (!task->encoder->m_cancelled && found_file): the only read of the flag.
\* A new iteration declares an empty input_file and resets found_file.
WorkerTop(w) ==
    /\ ~crashed
    /\ pc[w] = "top"
    /\ IF LoopContinues(w)
         THEN /\ pc' = [pc EXCEPT ![w] = "lock"]
              /\ found_file' = [found_file EXCEPT ![w] = FALSE]
              /\ input_file' = [input_file EXCEPT ![w] = 0]
         ELSE /\ pc' = [pc EXCEPT ![w] = "exited"]
              /\ UNCHANGED <<found_file, input_file>>
    /\ UNCHANGED <<config_vars, m_cancelled, m_to_be_encoded_files, process_mutex,
                   main_vars, cancel_ret, cancelled_local, ghost_vars, crashed>>

\* Mutant of MutexFree: the lock excludes nobody (the claim is made without it).
MutexFree_NoExclusion == TRUE

\* pthread_mutex_lock(&process_mutex) returns only when the mutex is free.
MutexFree == process_mutex = 0

WorkerLock(w) ==
    /\ ~crashed
    /\ pc[w] = "lock"
    /\ MutexFree
    /\ process_mutex' = w
    /\ pc' = [pc EXCEPT ![w] = "scan"]
    /\ UNCHANGED <<config_vars, m_cancelled, m_to_be_encoded_files, main_vars,
                   cancel_ret, local_vars, ghost_vars, crashed>>

\* The range-for over the map: it stops at the first entry whose flag reads false
\* and copies its key (input_file = file), or runs off the end.
WorkerScan(w) ==
    /\ ~crashed
    /\ pc[w] = "scan"
    /\ IF Unclaimed # {}
         THEN /\ input_file' = [input_file EXCEPT ![w] = FirstUnclaimed]
              /\ pc' = [pc EXCEPT ![w] = "mark"]
         ELSE /\ pc' = [pc EXCEPT ![w] = "unlock"]
              /\ UNCHANGED input_file
    /\ UNCHANGED <<config_vars, m_cancelled, m_to_be_encoded_files, process_mutex,
                   main_vars, cancel_ret, found_file, cancelled_local, ghost_vars,
                   crashed>>

\* processed = true; found_file = true; break.
WorkerMark(w) ==
    /\ ~crashed
    /\ pc[w] = "mark"
    /\ m_to_be_encoded_files' = [m_to_be_encoded_files EXCEPT ![input_file[w]] = TRUE]
    /\ found_file' = [found_file EXCEPT ![w] = TRUE]
    /\ pc' = [pc EXCEPT ![w] = "unlock"]
    /\ late_claims' = IF cancel_in_run
                         THEN [late_claims EXCEPT ![w] = @ + 1]
                         ELSE late_claims
    /\ UNCHANGED <<config_vars, m_cancelled, process_mutex, main_vars, cancel_ret,
                   input_file, cancelled_local, invoked, results, cancel_in_run,
                   cancel_unclaimed, crashed>>

\* Mutant of WorkerUnlock: the mutex is kept across the encode call.
WorkerUnlock_KeepsLock(w) ==
    /\ ~crashed
    /\ pc[w] = "unlock"
    /\ pc' = [pc EXCEPT ![w] = "dispatch"]
    /\ UNCHANGED <<config_vars, m_cancelled, m_to_be_encoded_files, process_mutex,
                   main_vars, cancel_ret, local_vars, ghost_vars, crashed>>

\* pthread_mutex_unlock(&process_mutex).
WorkerUnlock(w) ==
    /\ ~crashed
    /\ pc[w] = "unlock"
    /\ process_mutex' = 0
    /\ pc' = [pc EXCEPT ![w] = "dispatch"]
    /\ UNCHANGED <<config_vars, m_cancelled, m_to_be_encoded_files, main_vars,
                   cancel_ret, local_vars, ghost_vars, crashed>>

\* if (found_file && !input_file.empty()) process_single_file(input_file, ...):
\* the call is entered, or the iteration ends.
WorkerDispatch(w) ==
    /\ ~crashed
    /\ pc[w] = "dispatch"
    /\ IF found_file[w] /\ input_file[w] # 0
         THEN /\ pc' = [pc EXCEPT ![w] = "process"]
              /\ invoked' = [invoked EXCEPT ![input_file[w]] = @ + 1]
         ELSE /\ pc' = [pc EXCEPT ![w] = "top"]
              /\ UNCHANGED invoked
    /\ UNCHANGED <<config_vars, m_cancelled, m_to_be_encoded_files, process_mutex,
                   main_vars, cancel_ret, local_vars, results, cancel_in_run,
                   cancel_vars, crashed>>

\* The position a worker continues at when process_single_file has returned
\* result r: the return value is discarded and the loop goes on.
AfterProcess(r) == "top"

\* Mutant of ProcessReturn: a cancellation aborts the encode in flight.
ProcessReturn_AbortsOnCancel(w) ==
    /\ ~crashed
    /\ pc[w] = "process"
    /\ IF m_cancelled
         THEN /\ pc' = [pc EXCEPT ![w] = "exited"]
              /\ UNCHANGED results
         ELSE \E r \in {ERROR_NONE, ERROR_FILE} :
                /\ results' = [results EXCEPT ![input_file[w]] = r]
                /\ pc' = [pc EXCEPT ![w] = AfterProcess(r)]
    /\ UNCHANGED <<config_vars, m_cancelled, m_to_be_encoded_files, process_mutex,
                   main_vars, cancel_ret, local_vars, invoked, cancel_in_run,
                   cancel_vars, crashed>>

\* process_single_file returns, with success or with a per-file error code.  No
\* implementation reads m_cancelled.
ProcessReturn(w) ==
    /\ ~crashed
    /\ pc[w] = "process"
    /\ \E r \in {ERROR_NONE, ERROR_FILE} :
         /\ results' = [results EXCEPT ![input_file[w]] = r]
         /\ pc' = [pc EXCEPT ![w] = AfterProcess(r)]
    /\ UNCHANGED <<config_vars, m_cancelled, m_to_be_encoded_files, process_mutex,
                   main_vars, cancel_ret, local_vars, invoked, cancel_in_run,
                   cancel_vars, crashed>>

\* start_encoding has returned ERROR_PTHREAD_CREATE and destroyed its `tasks`
\* vector while worker w still dereferences its ThreadTask: undefined behaviour.
\* The worker either goes on as if the storage were intact (its ordinary steps) or
\* the process dies here.
UseDestroyedTask(w) ==
    /\ ~crashed
    /\ main_pc = "returned"
    /\ w \in Live
    /\ crashed' = TRUE
    /\ UNCHANGED <<config_vars, m_cancelled, m_to_be_encoded_files, process_mutex,
                   main_vars, cancel_ret, pc, local_vars, ghost_vars>>

Worker(w) ==
    \/ WorkerTop(w)
    \/ WorkerLock(w)
    \/ WorkerScan(w)
    \/ WorkerMark(w)
    \/ WorkerUnlock(w)
    \/ WorkerDispatch(w)
    \/ ProcessReturn(w)
    \/ UseDestroyedTask(w)

\* The steps of the thread that calls start_encoding.
SpawnAndJoin ==
    \/ CreateWorker
    \/ CreateWorkerFails
    \/ CreateDone
    \/ JoinWorker

MainThread ==
    \/ scan_input_directory
    \/ start_encoding
    \/ SpawnAndJoin
    \/ JoinWorkerFails
    \/ ReturnJoined

Next ==
    \/ MainThread
    \/ cancel_encoding
    \/ \E w \in Workers : Worker(w)

Spec == Init /\ [][Next]_vars

\* The scheduler runs every thread that can take a step: each worker's loop and
\* the calling thread's creation and join loops.  A pthread_create that fails,
\* a cancel_encoding call and a fault are not owed.
FairSpec ==
    /\ Spec
    /\ \A w \in Workers :
         WF_vars(WorkerTop(w) \/ WorkerLock(w) \/ WorkerScan(w) \/ WorkerMark(w)
                    \/ WorkerUnlock(w) \/ WorkerDispatch(w) \/ ProcessReturn(w))
    /\ WF_vars(scan_input_directory \/ start_encoding \/ CreateWorker
                  \/ CreateDone \/ JoinWorker \/ ReturnJoined)

----------------------------------------------------------------------------
\* The earlier revision of Encoder::start_encoding (src/unnamed/part_015): the
\* calling thread's code is the same, the worker claims one file and returns.

\* pthread_mutex_lock at the head of the thread function, input_file still empty.
OneShotLock(w) ==
    /\ ~crashed
    /\ pc[w] = "top"
    /\ MutexFree
    /\ process_mutex' = w
    /\ input_file' = [input_file EXCEPT ![w] = 0]
    /\ pc' = [pc EXCEPT ![w] = "scan"]
    /\ UNCHANGED <<config_vars, m_cancelled, m_to_be_encoded_files, main_vars,
                   cancel_ret, found_file, cancelled_local, ghost_vars, crashed>>

\* The range-for: the first unclaimed entry is copied and marked, then the unlock.
OneShotClaim(w) ==
    /\ ~crashed
    /\ pc[w] = "scan"
    /\ IF Unclaimed # {}
         THEN /\ input_file' = [input_file EXCEPT ![w] = FirstUnclaimed]
              /\ m_to_be_encoded_files' =
                     [m_to_be_encoded_files EXCEPT ![FirstUnclaimed] = TRUE]
         ELSE UNCHANGED <<input_file, m_to_be_encoded_files>>
    /\ process_mutex' = 0
    /\ pc' = [pc EXCEPT ![w] = "dispatch"]
    /\ UNCHANGED <<config_vars, m_cancelled, main_vars, cancel_ret, found_file,
                   cancelled_local, ghost_vars, crashed>>

\* if (!input_file.empty()) process_single_file(...); otherwise return nullptr.
OneShotDispatch(w) ==
    /\ ~crashed
    /\ pc[w] = "dispatch"
    /\ IF input_file[w] # 0
         THEN /\ pc' = [pc EXCEPT ![w] = "process"]
              /\ invoked' = [invoked EXCEPT ![input_file[w]] = @ + 1]
         ELSE /\ pc' = [pc EXCEPT ![w] = "exited"]
              /\ UNCHANGED invoked
    /\ UNCHANGED <<config_vars, m_cancelled, m_to_be_encoded_files, process_mutex,
                   main_vars, cancel_ret, local_vars, results, cancel_in_run,
                   cancel_vars, crashed>>

\* process_single_file returns and the thread function returns nullptr.
OneShotReturn(w) ==
    /\ ~crashed
    /\ pc[w] = "process"
    /\ \E r \in {ERROR_NONE, ERROR_FILE} :
         results' = [results EXCEPT ![input_file[w]] = r]
    /\ pc' = [pc EXCEPT ![w] = "exited"]
    /\ UNCHANGED <<config_vars, m_cancelled, m_to_be_encoded_files, process_mutex,
                   main_vars, cancel_ret, local_vars, invoked, cancel_in_run,
                   cancel_vars, crashed>>

OneShotWorker(w) ==
    \/ OneShotLock(w)
    \/ OneShotClaim(w)
    \/ OneShotDispatch(w)
    \/ OneShotReturn(w)
    \/ UseDestroyedTask(w)

NextOneShot ==
    \/ MainThread
    \/ cancel_encoding
    \/ \E w \in Workers : OneShotWorker(w)

SpecOneShot == Init /\ [][NextOneShot]_vars

----------------------------------------------------------------------------
\* The per-format dispatchers that preceded process_single_file:
\* EncoderMP3::start_encoding / processing_files (src/unnamed/part_015) and
\* EncoderOpus / EncoderFLAC (src/core/EncoderOpus.cpp, src/core/EncoderFactory.h).
\* Their creation and join loops are those of SpawnAndJoin; the encode of a file
\* is the body of the loop (position "process").

\* Entry of the per-format start_encoding: the flag is not reset here, so a flag
\* set before the call is in force during the run.
format_start_encoding ==
    /\ ~crashed
    /\ main_pc = "ready"
    /\ IF m_input_files = {}
         THEN /\ ret' = ERROR_NOT_FOUND
              /\ main_pc' = "returned"
              /\ UNCHANGED <<m_to_be_encoded_files, cancel_in_run, cancel_vars>>
         ELSE /\ m_to_be_encoded_files' = [f \in m_input_files |-> FALSE]
              /\ cancel_in_run' = m_cancelled
              /\ cancel_unclaimed' = FALSE
              /\ late_claims' = [w \in Workers |-> 0]
              /\ main_pc' = "spawn"
              /\ ret' = ret
    /\ UNCHANGED <<config_vars, m_cancelled, process_mutex, spawn_i, join_i,
                   cancel_ret, pc, local_vars, invoked, results, crashed, join_err>>

\* After the join loop: m_cancelled = false; return ERROR_NONE.
FormatReturnJoined ==
    /\ ~crashed
    /\ main_pc = "join"
    /\ join_i = m_thread_number
    /\ m_cancelled' = FALSE
    /\ ret' = ERROR_NONE
    /\ main_pc' = "returned"
    /\ UNCHANGED <<config_vars, m_to_be_encoded_files, process_mutex, spawn_i, join_i,
                   cancel_ret, pc, local_vars, ghost_vars, crashed, join_err>>

\* RETURN_ERR_IF_ERROR(pthread_join(...), ERROR_PTHREAD_JOIN): a join that returns
\* non-zero makes the per-format start_encoding return at once.
FormatJoinFails ==
    /\ ~crashed
    /\ main_pc = "join"
    /\ join_i < m_thread_number
    /\ join_err' = TRUE
    /\ ret' = ERROR_PTHREAD_JOIN
    /\ main_pc' = "returned"
    /\ UNCHANGED <<config_vars, m_cancelled, m_to_be_encoded_files, process_mutex,
                   spawn_i, join_i, cancel_ret, pc, local_vars, ghost_vars, crashed>>

\* The EncoderThreadArg handed to pthread_create is a local of the creation loop's
\* body: it is destroyed when the iteration ends, while the worker reads it for
\* as long as it runs.  Undefined behaviour: the worker goes on as if the storage
\* were intact (its ordinary steps), or the process dies here.
UseDestroyedArg(w) ==
    /\ ~crashed
    /\ w \in Live
    /\ crashed' = TRUE
    /\ UNCHANGED <<config_vars, m_cancelled, m_to_be_encoded_files, process_mutex,
                   main_vars, cancel_ret, pc, local_vars, ghost_vars>>

FormatMainThread ==
    \/ scan_input_directory
    \/ format_start_encoding
    \/ SpawnAndJoin
    \/ FormatJoinFails
    \/ FormatReturnJoined

\* while (true) { std::string input_file; pthread_mutex_lock(&process_mutex);
FormatLock(w) ==
    /\ ~crashed
    /\ pc[w] = "top"
    /\ MutexFree
    /\ process_mutex' = w
    /\ input_file' = [input_file EXCEPT ![w] = 0]
    /\ pc' = [pc EXCEPT ![w] = "scan"]
    /\ UNCHANGED <<config_vars, m_cancelled, m_to_be_encoded_files, main_vars,
                   cancel_ret, found_file, cancelled_local, ghost_vars, crashed>>

\* The scan of the map under the lock: the first unclaimed entry is copied and marked.
FormatClaim(w) ==
    /\ ~crashed
    /\ pc[w] = "scan"
    /\ IF Unclaimed # {}
         THEN /\ input_file' = [input_file EXCEPT ![w] = FirstUnclaimed]
              /\ m_to_be_encoded_files' =
                     [m_to_be_encoded_files EXCEPT ![FirstUnclaimed] = TRUE]
         ELSE UNCHANGED <<input_file, m_to_be_encoded_files>>
    /\ pc' = [pc EXCEPT ![w] = "check"]
    /\ UNCHANGED <<config_vars, m_cancelled, process_mutex, main_vars, cancel_ret,
                   found_file, cancelled_local, ghost_vars, crashed>>

\* EncoderMP3::processing_files: if (*thread_arg->cancelled) break; comes before
\* pthread_mutex_unlock, so on a set flag the thread leaves the loop and exits with
\* process_mutex still locked.
MP3Check(w) ==
    /\ ~crashed
    /\ pc[w] = "check"
    /\ IF m_cancelled
         THEN /\ pc' = [pc EXCEPT ![w] = "exited"]
              /\ UNCHANGED process_mutex
         ELSE /\ process_mutex' = 0
              /\ pc' = [pc EXCEPT ![w] = "dispatch"]
    /\ UNCHANGED <<config_vars, m_cancelled, m_to_be_encoded_files, main_vars,
                   cancel_ret, local_vars, ghost_vars, crashed>>

\* if (input_file.empty()) break; otherwise the encode of the file starts.
MP3Dispatch(w) ==
    /\ ~crashed
    /\ pc[w] = "dispatch"
    /\ IF input_file[w] = 0
         THEN /\ pc' = [pc EXCEPT ![w] = "exited"]
              /\ UNCHANGED invoked
         ELSE /\ pc' = [pc EXCEPT ![w] = "process"]
              /\ invoked' = [invoked EXCEPT ![input_file[w]] = @ + 1]
    /\ UNCHANGED <<config_vars, m_cancelled, m_to_be_encoded_files, process_mutex,
                   main_vars, cancel_ret, local_vars, results, cancel_in_run,
                   cancel_vars, crashed>>

\* The encode of the file ends: on success the loop goes on; every error path
\* (invalid wave, short read, LAME, fopen) is a break, and the thread exits.
MP3Finish(w) ==
    /\ ~crashed
    /\ pc[w] = "process"
    /\ \E r \in {ERROR_NONE, ERROR_FILE} :
         /\ results' = [results EXCEPT ![input_file[w]] = r]
         /\ pc' = [pc EXCEPT ![w] = IF r = ERROR_NONE THEN "top" ELSE "exited"]
    /\ UNCHANGED <<config_vars, m_cancelled, m_to_be_encoded_files, process_mutex,
                   main_vars, cancel_ret, local_vars, invoked, cancel_in_run,
                   cancel_vars, crashed>>

\* The values a caller can read as the result of a call that returned none.
Indeterminate == {ERROR_NONE, ERROR_CANCELLED, "indeterminate"}

\* EncoderMP3::cancel_encoding sets the flag and flows off the end of a function
\* declared to return common::ErrorCode: undefined behaviour.  The caller reads an
\* indeterminate value, or the process dies.
mp3_cancel_encoding ==
    /\ ~crashed
    /\ m_cancelled' = TRUE
    /\ cancel_in_run' = (cancel_in_run \/ Running)
    /\ cancel_unclaimed' = (cancel_unclaimed \/ (Running /\ Unclaimed # {}))
    /\ late_claims' = late_claims
    /\ \/ cancel_ret' \in Indeterminate /\ crashed' = crashed
       \/ cancel_ret' = cancel_ret /\ crashed' = TRUE
    /\ UNCHANGED <<config_vars, m_to_be_encoded_files, process_mutex, main_vars, pc,
                   local_vars, invoked, results>>

MP3Worker(w) ==
    \/ FormatLock(w)
    \/ FormatClaim(w)
    \/ MP3Check(w)
    \/ MP3Dispatch(w)
    \/ MP3Finish(w)

NextMP3 ==
    \/ FormatMainThread
    \/ mp3_cancel_encoding
    \/ \E w \in Workers : MP3Worker(w) \/ UseDestroyedArg(w)

SpecMP3 == Init /\ [][NextMP3]_vars

\* The same scheduling as FairSpec, for the MP3 dispatcher.
FairSpecMP3 ==
    /\ SpecMP3
    /\ \A w \in Workers : WF_vars(MP3Worker(w))
    /\ WF_vars(scan_input_directory \/ format_start_encoding \/ CreateWorker
                  \/ CreateDone \/ JoinWorker \/ FormatReturnJoined)

\* EncoderOpus::processing_files, EncoderFLAC::processing_files:
\* bool cancelled = *thread_arg->cancelled; pthread_mutex_unlock(&process_mutex);
OpusReadFlag(w) ==
    /\ ~crashed
    /\ pc[w] = "check"
    /\ cancelled_local' = [cancelled_local EXCEPT ![w] = m_cancelled]
    /\ process_mutex' = 0
    /\ pc' = [pc EXCEPT ![w] = "dispatch"]
    /\ UNCHANGED <<config_vars, m_cancelled, m_to_be_encoded_files, main_vars,
                   cancel_ret, found_file, input_file, ghost_vars, crashed>>

\* if (cancelled) break; if (input_file.empty()) break; otherwise the encode starts.
OpusDispatch(w) ==
    /\ ~crashed
    /\ pc[w] = "dispatch"
    /\ IF cancelled_local[w] \/ input_file[w] = 0
         THEN /\ pc' = [pc EXCEPT ![w] = "exited"]
              /\ UNCHANGED invoked
         ELSE /\ pc' = [pc EXCEPT ![w] = "process"]
              /\ invoked' = [invoked EXCEPT ![input_file[w]] = @ + 1]
    /\ UNCHANGED <<config_vars, m_cancelled, m_to_be_encoded_files, process_mutex,
                   main_vars, cancel_ret, local_vars, results, cancel_in_run,
                   cancel_vars, crashed>>

\* The encode ends: every error path is a `continue` or a caught exception, so
\* the loop goes on.
OpusFinish(w) ==
    /\ ~crashed
    /\ pc[w] = "process"
    /\ \E r \in {ERROR_NONE, ERROR_FILE} :
         results' = [results EXCEPT ![input_file[w]] = r]
    /\ pc' = [pc EXCEPT ![w] = "top"]
    /\ UNCHANGED <<config_vars, m_cancelled, m_to_be_encoded_files, process_mutex,
                   main_vars, cancel_ret, local_vars, invoked, cancel_in_run,
                   cancel_vars, crashed>>

OpusWorker(w) ==
    \/ FormatLock(w)
    \/ FormatClaim(w)
    \/ OpusReadFlag(w)
    \/ OpusDispatch(w)
    \/ OpusFinish(w)

\* EncoderOpus::cancel_encoding and EncoderFLAC::cancel_encoding are the two
\* statements of Encoder::cancel_encoding.
NextOpus ==
    \/ FormatMainThread
    \/ cancel_encoding
    \/ \E w \in Workers : OpusWorker(w) \/ UseDestroyedArg(w)

SpecOpus == Init /\ [][NextOpus]_vars

----------------------------------------------------------------------------
\* The per-file code: EncoderMP3::process_single_file (src/unnamed/part_014),
\* EncoderFLAC::process_single_file (src/unnamed/part_012) and the body of the
\* loop of the earlier EncoderMP3::processing_files (src/unnamed/part_015).
\* Each is a straight sequence of steps; a step succeeds, fails (the code's
\* error branch) or throws.  A table gives, for every step, what it acquires
\* and what its error branch emits, releases and returns.

Formats == {"MP3", "FLAC", "MP3_LOOP"}

\* The two PCM buffers get_wave_data allocates (right only for two channels).
PCM == {"left", "right"}

\* PCM buffers, the codec handle (lame_global_flags, FLAC__StreamEncoder), the
\* encode buffer(s) and the output FILE.
Resources == PCM \cup {"codec", "out_buffer", "file"}

\* A status event: callback(key, value).  names_input: the value contains the
\* input file's path; names_output: it contains the output file's path.
Event(kind, f, in, out) ==
    [kind |-> kind, file |-> f, names_input |-> in, names_output |-> out]

\* One step: what it acquires; whether it has an error branch and, if so, whether
\* that branch's event names the input and the output file, what it releases
\* and the code it returns (for the last step: what success releases); whether
\* the step can throw.
Row(name, acquires, fails, in, out, releases, code, throws) ==
    [name |-> name, acquires |-> acquires, fails |-> fails, names_input |-> in,
     names_output |-> out, releases |-> releases, code |-> code, throws |-> throws]

\* EncoderMP3::process_single_file.
MP3Steps == <<
    Row("validate", {}, TRUE, TRUE, FALSE, {}, ERROR_WAV_INVALID, FALSE),
    Row("get_wave_data", PCM, TRUE, TRUE, FALSE, {}, ERROR_READ_FILE, FALSE),
    Row("codec_new", {"codec"}, TRUE, TRUE, FALSE, PCM, ERROR_LAME, FALSE),
    Row("codec_params", {}, TRUE, TRUE, FALSE, PCM \cup {"codec"}, ERROR_LAME, FALSE),
    Row("new_buffer", {"out_buffer"}, FALSE, FALSE, FALSE, {}, NoValue, TRUE),
    Row("encode", {}, TRUE, TRUE, FALSE, PCM \cup {"codec", "out_buffer"}, ERROR_LAME,
        FALSE),
    Row("fopen", {"file"}, TRUE, TRUE, TRUE, PCM \cup {"codec", "out_buffer"}, ERROR_IO,
        FALSE),
    Row("finish", {}, FALSE, FALSE, FALSE, Resources, ERROR_NONE, FALSE) >>

\* EncoderFLAC::process_single_file.  The steps from codec_new on are inside the
\* try block.
FLACSteps == <<
    Row("validate", {}, TRUE, TRUE, FALSE, {}, ERROR_WAV_INVALID, FALSE),
    Row("get_wave_data", PCM, TRUE, TRUE, FALSE, PCM, ERROR_READ_FILE, FALSE),
    Row("codec_new", {"codec"}, TRUE, TRUE, FALSE, PCM, ERROR_FLAC, FALSE),
    Row("new_buffer", {"out_buffer"}, FALSE, FALSE, FALSE, {}, NoValue, TRUE),
    Row("fopen", {"file"}, TRUE, FALSE, TRUE, PCM \cup {"codec", "out_buffer"}, ERROR_IO,
        FALSE),
    Row("codec_init", {}, TRUE, TRUE, FALSE, Resources, ERROR_FLAC, FALSE),
    Row("encode", {}, TRUE, TRUE, FALSE, Resources, ERROR_FLAC, FALSE),
    Row("finish", {}, FALSE, FALSE, FALSE, Resources, ERROR_NONE, FALSE) >>

\* The body of the loop of the earlier EncoderMP3::processing_files: lame_init
\* comes first and every error branch is a bare break.
MP3LoopSteps == <<
    Row("codec_new", {"codec"}, FALSE, FALSE, FALSE, {}, NoValue, FALSE),
    Row("validate", {}, TRUE, TRUE, FALSE, {}, ERROR_WAV_INVALID, FALSE),
    Row("get_wave_data", PCM, TRUE, TRUE, FALSE, {}, ERROR_READ_FILE, FALSE),
    Row("codec_params", {}, TRUE, FALSE, FALSE, {}, ERROR_LAME, FALSE),
    Row("new_buffer", {"out_buffer"}, FALSE, FALSE, FALSE, {}, NoValue, TRUE),
    Row("encode", {}, TRUE, TRUE, FALSE, {"out_buffer"}, ERROR_LAME, FALSE),
    Row("fopen", {"file"}, TRUE, FALSE, TRUE, {}, ERROR_IO, FALSE),
    Row("finish", {}, FALSE, FALSE, FALSE, Resources, ERROR_NONE, FALSE) >>

Steps(format) ==
    CASE format = "MP3" -> MP3Steps
      [] format = "FLAC" -> FLACSteps
      [] OTHER -> MP3LoopSteps

\* The step the per-file code is at.
CurrentRow == Steps(psf_format)[psf_step]

\* The key of the events of a format: process_single_file calls status_cb with
\* "Thread <id>", "Error" and "Complete"; the earlier loop goes through
\* Helper::log, whose key is always the same.
EventKind(format, kind) == IF format = "MP3_LOOP" THEN "Log" ELSE kind

\* Mutant of FinishEvents: "Complete" is reported twice.
FinishEvents_Twice(f) ==
    <<Event(EventKind(psf_format, "Complete"), f, FALSE, TRUE),
      Event(EventKind(psf_format, "Complete"), f, FALSE, TRUE)>>

\* The events the successful end of the processing of file f emits.
FinishEvents(f) == <<Event(EventKind(psf_format, "Complete"), f, FALSE, TRUE)>>

\* The next file one worker processes: the first of the job set not yet processed.
NextFile(f) ==
    /\ f \in m_input_files
    /\ psf_results[f] = NoValue
    /\ \A g \in m_input_files : g < f => psf_results[g] # NoValue

\* Everything of the dispatcher: it stays put while the per-file code is followed.
dispatch_vars == <<directory, scan_ret, m_input_files, m_thread_number, m_cancelled,
                   m_to_be_encoded_files, process_mutex, main_vars, cancel_ret, pc,
                   local_vars, ghost_vars, crashed>>

\* delete[] / lame_close / FLAC__stream_encoder_delete / fclose of the resources
\* in rel: one that is held is released, a pointer that is still null is a no-op,
\* one that was released before is released twice.
Release(rel) ==
    /\ psf_held' = psf_held \ rel
    /\ psf_freed' = psf_freed \cup (psf_held \cap rel)
    /\ psf_double' = (psf_double \/ (psf_freed \cap rel # {}))

\* The position after an error return: process_single_file returns to the
\* dispatcher's loop, which calls it for the next file; in the earlier loop the
\* error branch is a break and the thread exits.
AfterError(format) == IF format = "MP3_LOOP" THEN "exited" ELSE "idle"

\* The call is entered for the next file: the "Processing" event.
ProcessBegin ==
    /\ psf_pc = "idle"
    /\ \E f \in Files :
         /\ NextFile(f)
         /\ psf_file' = f
         /\ m_status' = Append(m_status,
                               Event(EventKind(psf_format, "Thread"), f, TRUE, FALSE))
    /\ psf_pc' = "running"
    /\ psf_step' = 1
    /\ psf_channels' = 0
    /\ psf_held' = {}
    /\ psf_freed' = {}
    /\ UNCHANGED <<dispatch_vars, id3_vars, cli_vars, unit_vars,
                   path_vars, wav_vars, psf_format, psf_double, written,
                   psf_results>>

\* The current step succeeds.  validate fills the header (one or two channels),
\* get_wave_data allocates right only for two channels, fopen creates the output
\* file; the last step writes, releases everything and emits "Complete".
StepSucceeds ==
    /\ psf_pc = "running"
    /\ IF CurrentRow.name = "finish"
         THEN /\ Release(CurrentRow.releases)
              /\ m_status' = m_status \o FinishEvents(psf_file)
              /\ psf_results' = [psf_results EXCEPT ![psf_file] = ERROR_NONE]
              /\ psf_pc' = "idle"
              /\ UNCHANGED <<psf_step, psf_channels, written>>
         ELSE /\ psf_step' = psf_step + 1
              /\ IF CurrentRow.name = "validate"
                   THEN psf_channels' \in {1, 2}
                   ELSE UNCHANGED psf_channels
              /\ psf_held' = psf_held \cup
                     (IF psf_channels = 1 THEN CurrentRow.acquires \ {"right"}
                                          ELSE CurrentRow.acquires)
              /\ written' = IF CurrentRow.name = "fopen"
                              THEN [written EXCEPT ![psf_file] = @ + 1]
                              ELSE written
              /\ UNCHANGED <<psf_pc, psf_freed, psf_double, m_status, psf_results>>
    /\ UNCHANGED <<dispatch_vars, id3_vars, cli_vars, unit_vars,
                   path_vars, wav_vars, psf_format, psf_file>>

\* The current step fails: the error branch emits its event, releases what it
\* releases and returns its code.
StepFails ==
    /\ psf_pc = "running"
    /\ CurrentRow.fails
    /\ m_status' = Append(m_status,
                          Event(EventKind(psf_format, "Error"), psf_file,
                                CurrentRow.names_input, CurrentRow.names_output))
    /\ Release(CurrentRow.releases)
    /\ psf_results' = [psf_results EXCEPT ![psf_file] = CurrentRow.code]
    /\ psf_pc' = AfterError(psf_format)
    /\ UNCHANGED <<dispatch_vars, id3_vars, cli_vars, unit_vars,
                   path_vars, wav_vars, psf_format, psf_file, psf_step,
                   psf_channels, written>>

\* The current step throws (operator new: std::bad_alloc).  In
\* EncoderFLAC::process_single_file the catch block emits "Error" with
\* "Exception: " + e.what(), deletes left and right and returns ERROR_FLAC.  The
\* MP3 code has no handler: the exception leaves the thread function and the
\* process is terminated.
StepThrows ==
    /\ psf_pc = "running"
    /\ CurrentRow.throws
    /\ IF psf_format = "FLAC"
         THEN /\ m_status' = Append(m_status, Event("Error", psf_file, FALSE, FALSE))
              /\ Release(PCM)
              /\ psf_results' = [psf_results EXCEPT ![psf_file] = ERROR_FLAC]
              /\ psf_pc' = "idle"
         ELSE /\ psf_pc' = "terminated"
              /\ UNCHANGED <<psf_held, psf_freed, psf_double, m_status, psf_results>>
    /\ UNCHANGED <<dispatch_vars, id3_vars, cli_vars, unit_vars,
                   path_vars, wav_vars, psf_format, psf_file, psf_step,
                   psf_channels, written>>

\* One encoder of either format, a scanned job set, and the files about to be
\* processed in turn by one worker.
FileInit ==
    /\ directory = "listed"
    /\ scan_ret = ERROR_NONE
    /\ \E n \in 1..MaxFiles : m_input_files = 1..n
    /\ m_thread_number = 1
    /\ main_pc = "ready"
    /\ DispatcherIdle
    /\ UnitIdle
    /\ psf_format \in Formats
    /\ FileIdle
    /\ PathIdle
    /\ WavIdle
    /\ Id3Idle
    /\ CliIdle

NextFileStep ==
    \/ ProcessBegin
    \/ StepSucceeds
    \/ StepFails
    \/ StepThrows

SpecFile == FileInit /\ [][NextFileStep]_vars

----------------------------------------------------------------------------
\* The output path: Helper::generate_output_file (src/utils/Helper.cpp) and its
\* call in process_single_file.  A string is a sequence of characters.

\* Longest input path of the model.
MaxPath == 5

\* The characters of an input path: the two the code treats as separators, the
\* dot, and any other character.
Chars == {"/", "\\", ".", "a"}

\* MP3_EXT, FLAC_EXT.
Extensions == {<<".", "m", "p", "3">>, <<".", "f", "l", "a", "c">>}

\* Output directories.
OutputDirs == {<<"o">>, <<"o", "/", "o", ".", "d">>}

\* The strings of length n over Chars.
RECURSIVE Strings(_)
Strings(n) ==
    IF n = 0 THEN {<< >>}
    ELSE {Append(t, c) : t \in Strings(n - 1), c \in Chars}

InputPaths == UNION {Strings(n) : n \in 0..MaxPath}

\* std::string::find_last_of(set): the last position (from 1) holding one of the
\* characters, 0 for npos.  The search runs from the end of the string.
RECURSIVE find_last_of(_, _, _)
find_last_of(str, set, from) ==
    IF from = 0 THEN 0
    ELSE IF str[from] \in set THEN from
    ELSE find_last_of(str, set, from - 1)

\* Mutant of generate_output_file: the name is cut at its first dot.
generate_output_file_FirstDot(input, extension) ==
    IF \A i \in 1..Len(input) : input[i] # "."
      THEN input \o extension
      ELSE LET pos == CHOOSE i \in 1..Len(input) :
                        input[i] = "." /\ \A j \in 1..(i - 1) : input[j] # "."
           IN SubSeq(input, 1, pos - 1) \o extension

\* Helper::generate_output_file: the extension replaces what follows the last
\* dot, or is appended when there is no dot.
generate_output_file(input, extension) ==
    LET pos == find_last_of(input, {"."}, Len(input))
    IN IF pos = 0 THEN input \o extension
       ELSE SubSeq(input, 1, pos - 1) \o extension

\* process_single_file: filename is what follows the last '/' or '\\' of
\* input_file; output_file = output_dir + "/" + generate_output_file(filename, EXT).
OutputFile(input, output_dir, extension) ==
    LET last_slash == find_last_of(input, {"/", "\\"}, Len(input))
        filename == IF last_slash = 0 THEN input
                    ELSE SubSeq(input, last_slash + 1, Len(input))
    IN output_dir \o <<"/">> \o generate_output_file(filename, extension)

\* The inputs of one call.
PathInit ==
    /\ directory = NoValue
    /\ scan_ret = NoValue
    /\ m_input_files = {}
    /\ m_thread_number = 1
    /\ main_pc = "constructed"
    /\ DispatcherIdle
    /\ UnitIdle
    /\ psf_format = NoValue
    /\ FileIdle
    /\ psf_input_path \in InputPaths
    /\ psf_output_dir \in OutputDirs
    /\ psf_extension \in Extensions
    /\ psf_output_file = << >>
    /\ WavIdle
    /\ Id3Idle
    /\ CliIdle

\* The output path is computed.
ComputeOutputFile ==
    /\ psf_output_file = << >>
    /\ psf_output_file' = OutputFile(psf_input_path, psf_output_dir, psf_extension)
    /\ UNCHANGED <<dispatch_vars, id3_vars, cli_vars, unit_vars,
                   file_vars, wav_vars, psf_input_path, psf_output_dir,
                   psf_extension>>

SpecPath == PathInit /\ [][ComputeOutputFile]_vars

----------------------------------------------------------------------------
\* The output paths of two files of one scan

\* The names a directory entry can have.
EntryNames == UNION {[1..n -> {"a", "."}] : n \in 1..3}

\* The directories under the scanned directory "a" that get_file_paths descends
\* into: the directory itself and two subdirectories.
ScanDirs == {<<"a", "/">>, <<"a", "/", "a", "/">>, <<"a", "/", ".", "/">>}

\* The entry paths the recursive get_file_paths can put into m_input_files.
ScanPaths == {d \o n : d \in ScanDirs, n \in EntryNames}

\* Two distinct files of one run, both about to be processed.
PairInit ==
    /\ directory = NoValue
    /\ scan_ret = NoValue
    /\ m_input_files = {}
    /\ m_thread_number = MaxThreads
    /\ main_pc = "constructed"
    /\ DispatcherIdle
    /\ StatusIdle
    /\ TagsIdle
    /\ psf_format = NoValue
    /\ FileIdle
    /\ psf_input_path \in ScanPaths
    /\ other_input_path \in ScanPaths \ {psf_input_path}
    /\ psf_output_dir \in OutputDirs
    /\ psf_extension \in Extensions
    /\ psf_output_file = << >>
    /\ other_output_file = << >>
    /\ WavIdle
    /\ Id3Idle
    /\ CliIdle

\* The worker that claimed the second file computes its output path.
ComputeOtherOutputFile ==
    /\ other_input_path # << >>
    /\ other_output_file = << >>
    /\ other_output_file' = OutputFile(other_input_path, psf_output_dir, psf_extension)
    /\ UNCHANGED <<dispatch_vars, id3_vars, cli_vars, status_vars, tags_vars, file_vars,
                   wav_vars, path_vars, other_input_path>>

NextPair ==
    \/ ComputeOutputFile
    \/ ComputeOtherOutputFile

SpecPair == PairInit /\ [][NextPair]_vars

----------------------------------------------------------------------------
\* WaveFileWrapper::validate (src/utils/WaveFileWrapper.cpp) over the bytes of one
\* file.  A byte is a number below 256.  A uint32_t is the record [q, r] of the
\* value 4 * q + r with q below 2^30, so that its sums wrap at 2^32 as the code's do.

MIN_HEADER_SIZE == 44

\* The longest file, in four-byte words.
MaxWords == 12

RIFF == <<82, 73, 70, 70>>
WAVE == <<87, 65, 86, 69>>
FMT == <<102, 109, 116, 32>>
DATA == <<100, 97, 116, 97>>
LIST == <<76, 73, 83, 84>>

\* 2^32 / 4: the number of values of the q part of a uint32_t.
Quarter == 1073741824

U32(n) == [q |-> n \div 4, r |-> n % 4]

\* a + b of two uint32_t.
Add32(a, b) ==
    LET rs == a.r + b.r
    IN [q |-> (a.q + b.q + rs \div 4) % Quarter, r |-> rs % 4]

\* a < n for a uint32_t a and a size n.
Below(a, n) == a.q <= n \div 4 /\ 4 * a.q + a.r < n

\* a > n for a uint32_t a and a number n.
Over(a, n) == n < 0 \/ ~Below(a, n + 1)

\* The n bytes input[ pos ] .. input[ pos + n - 1 ] all exist.
InBounds(input, p, n) == \A i \in 0..(n - 1) : Below(Add32(p, U32(i)), Len(input))

\* input[ pos ] of an existing byte.
ByteAt(input, p) == input[4 * p.q + p.r + 1]

read_as_chars(input, p, length) ==
    [i \in 1..length |-> ByteAt(input, Add32(p, U32(i - 1)))]

read_as_uint32_little(input, p) ==
    LET b(i) == ByteAt(input, Add32(p, U32(i)))
    IN [q |-> b(0) \div 4 + 64 * b(1) + 16384 * b(2) + 4194304 * b(3), r |-> b(0) % 4]

read_as_uint16(input, p) == ByteAt(input, p) + 256 * ByteAt(input, Add32(p, U32(1)))

\* What a read that leaves the buffer can deliver: the bytes some other object holds.
OobTags == {DATA, <<0, 0, 0, 0>>}
OobSizes == {U32(0), U32(4)}

TagsRead(input, p) ==
    IF InBounds(input, p, 4) THEN {read_as_chars(input, p, 4)} ELSE OobTags

SizesRead(input, p) ==
    IF InBounds(input, p, 4) THEN {read_as_uint32_little(input, p)} ELSE OobSizes

\* The words a file is built from, by position: the canonical header of 44 bytes
\* (RIFF, length, WAVE, "fmt ", 16, format and channels, three more words of the
\* fmt chunk, then chunks) and, at each position the code inspects, alternatives.
WordChoices(i) ==
    CASE i = 1 -> {RIFF, DATA}
      [] i = 2 -> {<<0, 0, 0, 0>>, DATA}
      [] i = 3 -> {WAVE, DATA}
      [] i = 4 -> {FMT, LIST}
      [] i = 5 -> {<<16, 0, 0, 0>>, <<0, 0, 0, 0>>, <<20, 0, 0, 0>>, <<240, 255, 255, 255>>}
      [] i = 6 -> {<<1, 0, 2, 0>>, <<3, 0, 1, 0>>}
      [] i \in 7..9 -> {<<0, 0, 0, 0>>}
      [] OTHER -> {DATA, LIST, <<0, 0, 0, 0>>, <<252, 255, 255, 255>>}

RECURSIVE Templates(_)
Templates(n) ==
    IF n = 0 THEN {<< >>}
    ELSE {t \o w : t \in Templates(n - 1), w \in WordChoices(n)}

\* The files: every prefix, cut at any byte, of a sequence of MaxWords words.
WavFiles ==
    UNION {{SubSeq(t, 1, len) : t \in Templates((len + 3) \div 4)} : len \in 0..(4 * MaxWords)}

\* The longest PCM payload, in bytes.
MaxPayload == 8

\* A header as createValidWaveHeader writes it for 16 bits per sample, with a fmt
\* chunk of 16 bytes or of 18 (two bytes of extension size follow the 16).
ValidWaveHeader(fmt_size, channels, data_size) ==
    RIFF \o <<36 + data_size, 0, 0, 0>> \o WAVE \o FMT \o <<fmt_size, 0, 0, 0>>
         \o <<1, 0, channels, 0>> \o <<68, 172, 0, 0>> \o <<16, 177, 2, 0>>
         \o <<2 * channels, 0, 16, 0>> \o (IF fmt_size = 18 THEN <<0, 0>> ELSE << >>)
         \o DATA \o <<data_size, 0, 0, 0>>

\* Payloads: bytes that differ from one place to the next, with and without the
\* sign bit of the 16-bit words.
AudioData == {[k \in 1..MaxPayload |-> k], [k \in 1..MaxPayload |-> 256 - k]}

\* Files with a payload: complete, cut short, or longer than data_size declares.
DataFiles ==
    {ValidWaveHeader(fmt_size, channels, data_size) \o SubSeq(audio, 1, len) :
        fmt_size \in {16, 18}, channels \in {1, 2},
        data_size \in {d \in 0..(MaxPayload + 2) : d % 2 = 0},
        audio \in AudioData, len \in 0..MaxPayload}

\* A chunk: its tag, the size of its payload, the payload.
Chunk(tag, payload) == tag \o <<Len(payload), 0, 0, 0>> \o payload

\* A tag that is none of the tags the code knows.
FACT == <<102, 97, 99, 116>>

\* The chunks a file can carry besides "fmt " and "data": none, or a "LIST" or
\* "fact" chunk whose payload of one or two words is zero or spells "data".
ExtraChunks ==
    {<< >>} \cup {Chunk(tag, payload) :
                     tag \in {LIST, FACT},
                     payload \in {<<0, 0, 0, 0>>, DATA, <<0, 0, 0, 0>> \o DATA}}

\* Files made of whole chunks: an optional chunk before "fmt ", the fmt chunk of
\* a PCM file, an optional chunk before "data", the data chunk and its payload.
ChunkFiles ==
    {LET chunks == before \o Chunk(FMT, <<1, 0, channels, 0>> \o <<68, 172, 0, 0>>
                                             \o <<16, 177, 2, 0>>
                                             \o <<2 * channels, 0, 16, 0>>)
                          \o between \o Chunk(DATA, SubSeq(audio, 1, 4))
     IN RIFF \o <<4 + Len(chunks), 0, 0, 0>> \o WAVE \o chunks :
        before \in ExtraChunks, between \in ExtraChunks, channels \in {1, 2},
        audio \in AudioData}

\* validate is called for one file.
WavInit ==
    /\ directory = NoValue
    /\ scan_ret = NoValue
    /\ m_input_files = {}
    /\ m_thread_number = 1
    /\ main_pc = "constructed"
    /\ DispatcherIdle
    /\ UnitIdle
    /\ psf_format = NoValue
    /\ FileIdle
    /\ PathIdle
    /\ Id3Idle
    /\ CliIdle
    /\ wav_exists \in BOOLEAN
    /\ wav_bytes \in (IF wav_exists THEN WavFiles \cup DataFiles \cup ChunkFiles
                                     ELSE {<< >>})
    /\ contents = << >>
    /\ wav_pc = "called"
    /\ wav_pos = U32(0)
    /\ header = NoHeader
    /\ wav_valid = FALSE
    /\ wav_oob = FALSE
    /\ wav_overrun = FALSE
    /\ left = << >>
    /\ right = << >>
    /\ wav_got = FALSE

\* validate returns.
Return(valid) ==
    /\ wav_pc' = "returned"
    /\ wav_valid' = valid

\* FileSystemHelper::read_binary_file and the size check.  For an empty file the
\* vector is resized to 0 and contents[ 0 ] is evaluated as the fread target,
\* which is undefined: with the library's assertions on the process aborts,
\* without them fread reads no item and read_binary_file returns false.
validate_ReadFile ==
    /\ wav_pc = "called"
    /\ IF ~wav_exists
       THEN Return(FALSE) /\ UNCHANGED contents
       ELSE IF wav_bytes = << >>
            THEN /\ \/ Return(FALSE)
                    \/ wav_pc' = "aborted" /\ UNCHANGED wav_valid
                 /\ UNCHANGED contents
            ELSE /\ contents' = wav_bytes
                 /\ IF Len(wav_bytes) < MIN_HEADER_SIZE
                    THEN Return(FALSE)
                    ELSE wav_pc' = "header" /\ UNCHANGED wav_valid
    /\ UNCHANGED <<dispatch_vars, id3_vars, cli_vars, unit_vars,
                   file_vars, path_vars, wav_exists, wav_bytes, wav_pos,
                   header, wav_oob, wav_overrun, data_vars>>

\* From the RIFF tag to the end of the fmt loop, whose body runs at most once.
validate_Header ==
    /\ wav_pc = "header"
    /\ LET riff == read_as_chars(contents, U32(0), 4)
           wave == read_as_chars(contents, U32(8), 4)
           fmt == read_as_chars(contents, U32(12), 4)
           chunk_size == read_as_uint32_little(contents, U32(16))
           pos_data == Add32(U32(20), chunk_size)
       IN IF riff # RIFF
          THEN /\ header' = [header EXCEPT !.riff = riff]
               /\ Return(FALSE)
               /\ UNCHANGED wav_pos
          ELSE IF wave # WAVE
          THEN /\ header' = [header EXCEPT !.riff = riff, !.wave = wave]
               /\ Return(FALSE)
               /\ UNCHANGED wav_pos
          ELSE IF ~Below(U32(16), Len(contents))
          THEN /\ header' = [header EXCEPT !.riff = riff, !.wave = wave]
               /\ wav_pos' = U32(0)
               /\ wav_pc' = "data_loop"
               /\ UNCHANGED wav_valid
          ELSE IF fmt # FMT
          THEN /\ header' = [header EXCEPT !.riff = riff, !.wave = wave, !.fmt = fmt]
               /\ Return(FALSE)
               /\ UNCHANGED wav_pos
          ELSE /\ header' = [header EXCEPT !.riff = riff, !.wave = wave, !.fmt = fmt,
                                           !.chunk_size = chunk_size,
                                           !.format = read_as_uint16(contents, U32(20)),
                                           !.channels = read_as_uint16(contents, U32(22)),
                                           !.block_align = read_as_uint16(contents, U32(32)),
                                           !.bits_per_sample =
                                               read_as_uint16(contents, U32(34))]
               /\ wav_pos' = pos_data
               /\ wav_pc' = "data_loop"
               /\ UNCHANGED wav_valid
    /\ wav_overrun' = (wav_pc' = "data_loop" /\ Over(header'.chunk_size, Len(contents) - 20))
    /\ UNCHANGED <<dispatch_vars, id3_vars, cli_vars, unit_vars,
                   file_vars, path_vars, wav_exists, wav_bytes, contents,
                   wav_oob, data_vars>>

\* The next turn of the data loop reads outside the buffer: the tag when pos + 4
\* has wrapped, the size that follows a "LIST" or "data" tag when fewer than four
\* bytes follow the tag.
ReadsOutside ==
    /\ Below(Add32(wav_pos, U32(4)), Len(contents))
    /\ \/ ~InBounds(contents, wav_pos, 4)
       \/ /\ read_as_chars(contents, wav_pos, 4) \in {LIST, DATA}
          /\ ~InBounds(contents, Add32(wav_pos, U32(4)), 4)

\* One turn of the data loop, or its end and the return that follows.
validate_DataLoop ==
    /\ wav_pc = "data_loop"
    /\ IF ~Below(Add32(wav_pos, U32(4)), Len(contents))
       THEN /\ Return(FALSE)
            /\ UNCHANGED <<wav_pos, header, wav_oob, wav_overrun>>
       ELSE \E tag \in TagsRead(contents, wav_pos) :
               LET after == Add32(wav_pos, U32(4))
               IN /\ wav_oob' = (wav_oob \/ ReadsOutside)
                  /\ IF tag = LIST
                     THEN \E info_size \in SizesRead(contents, after) :
                             /\ wav_pos' = Add32(after, info_size)
                             /\ header' = [header EXCEPT !.data = tag]
                             /\ wav_overrun' = (wav_overrun \/
                                     Over(info_size, Len(contents) - (4 * after.q + after.r + 4)))
                             /\ UNCHANGED <<wav_pc, wav_valid>>
                     ELSE IF tag = DATA
                     THEN \E data_size \in SizesRead(contents, after) :
                             /\ wav_pos' = Add32(after, U32(4))
                             /\ header' = [header EXCEPT !.data = tag,
                                                         !.data_size = data_size]
                             /\ Return(TRUE)
                             /\ UNCHANGED wav_overrun
                     ELSE /\ wav_pos' = after
                          /\ header' = [header EXCEPT !.data = tag]
                          /\ UNCHANGED <<wav_pc, wav_valid, wav_overrun>>
    /\ UNCHANGED <<dispatch_vars, id3_vars, cli_vars, unit_vars,
                   file_vars, path_vars, wav_exists, wav_bytes, contents,
                   data_vars>>

\* A read outside the buffer touches memory the process does not own.
validate_ReadFault ==
    /\ wav_pc = "data_loop"
    /\ ReadsOutside
    /\ wav_pc' = "aborted"
    /\ wav_oob' = TRUE
    /\ UNCHANGED <<dispatch_vars, id3_vars, cli_vars, unit_vars,
                   file_vars, path_vars, wav_exists, wav_bytes, contents,
                   wav_pos, header, wav_valid, wav_overrun, data_vars>>

validate ==
    \/ validate_ReadFile
    \/ validate_Header
    \/ validate_DataLoop
    \/ validate_ReadFault

\* Bytes an array holds where nothing was read into it.
Uninitialised == {0, 255}

\* The int16_t a little-endian machine sees in two bytes.
Int16(lo, hi) == LET u == lo + 256 * hi IN IF u >= 32768 THEN u - 65536 ELSE u

\* The array of elems int16_t a byte array holds.
AsInt16(bytes, elems) == [k \in 1..elems |-> Int16(bytes[2 * k - 1], bytes[2 * k])]

\* get_wave_data, called once validate has returned (m_valid is its result).  The
\* stream is positioned at sizeof( WaveHeader ) = 44.  A read that meets the end of
\* the file stores the bytes there are and every later read stores nothing; the
\* function does not look at the state of the stream.  With one channel one read
\* of block_align * samples bytes fills left; otherwise read i of the loop stores
\* block_align / channels bytes at &left[ i ] and the next as many at &right[ i ].
get_wave_data ==
    /\ wav_pc = "returned"
    /\ IF ~wav_valid
       THEN /\ wav_pc' = "got"
            /\ wav_got' = FALSE
            /\ UNCHANGED <<left, right>>
       ELSE IF header.block_align = 0 \/ header.channels = 0
       THEN \* an integer division by zero
            /\ wav_pc' = "aborted"
            /\ UNCHANGED data_vars
       ELSE IF header.data_size.q > MaxPayload
       THEN \* arrays far larger than the file: the allocation throws, or the reads
            \* leave them as they were allocated
            /\ wav_pc' \in {"aborted", "got"}
            /\ wav_got' = (wav_pc' = "got")
            /\ UNCHANGED <<left, right>>
       ELSE \E g \in Uninitialised :
               LET size == 4 * header.data_size.q + header.data_size.r
                   samples == size \div header.block_align
                   elems == (size \div header.channels) \div 2
                   mono == header.channels = 1
                   n == IF mono THEN header.block_align * samples
                        ELSE header.block_align \div header.channels
                   reads == IF mono THEN 1 ELSE samples
                   stride == IF mono THEN n ELSE 2 * n
                   \* the byte of the array at offset b (from 0) after the reads
                   \* that store at its start (mono) or at &array[ i ], the first
                   \* of them taking the stream from offset `first`
                   Stored(b, first) ==
                       LET from(i) == first + stride * i + (b - 2 * i)
                           I == {i \in 0..(reads - 1) :
                                    /\ 2 * i <= b
                                    /\ b < 2 * i + n
                                    /\ from(i) < Len(wav_bytes)}
                       IN IF I = {} THEN g
                          ELSE LET i == CHOOSE j \in I : \A k \in I : k <= j
                               IN wav_bytes[from(i) + 1]
                   Array(first) == AsInt16([b \in 1..(2 * elems) |-> Stored(b - 1, first)],
                                           elems)
                   overflow == reads > 0 /\ 2 * (reads - 1) + n > 2 * elems
               IN IF overflow
                  THEN \* bytes are stored beyond the array
                       /\ wav_pc' \in {"aborted", "got"}
                       /\ wav_got' = (wav_pc' = "got")
                       /\ left' = Array(44)
                       /\ right' = IF mono THEN right ELSE Array(44 + n)
                  ELSE /\ wav_pc' = "got"
                       /\ wav_got' = TRUE
                       /\ left' = Array(44)
                       /\ right' = IF mono THEN right ELSE Array(44 + n)
    /\ UNCHANGED <<dispatch_vars, id3_vars, cli_vars, unit_vars,
                   file_vars, path_vars, wav_exists, wav_bytes, contents,
                   wav_pos, header, wav_valid, wav_oob, wav_overrun>>

WaveFileWrapper ==
    \/ validate
    \/ get_wave_data

SpecWav == WavInit /\ [][WaveFileWrapper]_vars

----------------------------------------------------------------------------
\* Helper::read_as_uint32_big (src/utils/Helper.cpp), which Mp3FileWrapper uses to
\* decode the size of an ID3 tag.

MP3_BIT == 7

\* The byte values the four bytes are drawn from.
TagSizeBytes == {0, 1, 2, 127, 128, 255}

\* res = ( res << 8 ) + input[ pos + i ]: a decoder that takes eight bits per byte
\* (of the result the low 31 bits).
RECURSIVE read_as_uint32_big_EightBits(_, _, _, _)
read_as_uint32_big_EightBits(input, pos, i, res) ==
    IF i = 4 THEN res
    ELSE read_as_uint32_big_EightBits(input, pos, i + 1,
                                      (res % 8388608) * 256 + input[pos + i + 1])
\* The loop of read_as_uint32_big from turn i on, res being its accumulator.
RECURSIVE read_as_uint32_big(_, _, _, _)
read_as_uint32_big(input, pos, i, res) ==
    IF i = 4 THEN res
    ELSE read_as_uint32_big(input, pos, i + 1, res * (2 ^ MP3_BIT) + input[pos + i + 1])

\* Four bytes are about to be decoded.
Id3Init ==
    /\ directory = NoValue
    /\ scan_ret = NoValue
    /\ m_input_files = {}
    /\ m_thread_number = 1
    /\ main_pc = "constructed"
    /\ DispatcherIdle
    /\ UnitIdle
    /\ psf_format = NoValue
    /\ FileIdle
    /\ PathIdle
    /\ WavIdle
    /\ CliIdle
    /\ id3_bytes \in [1..4 -> TagSizeBytes]
    /\ id3_pc = "called"
    /\ id3_offset = 0

\* id3tag.offset = Helper::read_as_uint32_big( contents, pos )
DecodeTagSize ==
    /\ id3_pc = "called"
    /\ id3_offset' = read_as_uint32_big(id3_bytes, 0, 0, 0)
    /\ id3_pc' = "returned"
    /\ UNCHANGED <<dispatch_vars, cli_vars, file_vars, path_vars, wav_vars, unit_vars,
                   id3_bytes>>

SpecId3 == Id3Init /\ [][DecodeTagSize]_vars

----------------------------------------------------------------------------
\* Mp3FileWrapper::validate (src/unnamed/part_003): get_id3tags, then
\* get_mp3header, over the bytes of one file (kept in id3_bytes)

\* The blocks get_id3tags is followed through.
MaxTags == 3

ID3 == <<73, 68, 51>>

\* The flag bytes of a block's header: none, footer present (bit 4), extended
\* header (bit 6), and a byte with one of the low four bits set.
FlagBytes == {0, 16, 64, 1}

\* A frame "TIT2" of two bytes: id, size, two flag bytes, content.
Frame == <<84, 73, 84, 50>> \o <<0, 0, 0, 2>> \o <<0, 0>> \o <<0, 65>>

\* What follows a block's header: nothing, padding, or a frame.
Bodies == {<< >>, <<0, 0>>, Frame}

\* A whole ID3v2 block: "ID3", version 4.0, the flag byte, the size of the body
\* as four seven-bit bytes, the body, and a footer of 10 bytes if the flag says so.
Block(flag, body) ==
    ID3 \o <<4, 0, flag>> \o <<0, 0, 0, Len(body)>> \o body
        \o (IF flag = 16 THEN <<51, 68, 73, 4, 0, flag, 0, 0, 0, Len(body)>> ELSE << >>)

Blocks == {Block(flag, body) : flag \in FlagBytes, body \in Bodies}

\* The first bytes of an MPEG audio frame.
MpegFrame == <<255, 251, 144, 0, 0>>

\* The files: no block, one block or two blocks, then the audio.
Mp3Files ==
    {MpegFrame} \cup {b \o MpegFrame : b \in Blocks}
                \cup {b \o c \o MpegFrame : b \in Blocks, c \in Blocks}

\* What a member of an ID3Tag that was never written can hold.
Indeterminate32 == {0, 10}

\* validate is called for one file.
TagsInit ==
    /\ directory = NoValue
    /\ scan_ret = NoValue
    /\ m_input_files = {}
    /\ m_thread_number = 1
    /\ main_pc = "constructed"
    /\ DispatcherIdle
    /\ StatusIdle
    /\ PairIdle
    /\ psf_format = NoValue
    /\ FileIdle
    /\ PathIdle
    /\ WavIdle
    /\ CliIdle
    /\ id3_bytes \in Mp3Files
    /\ id3_pc = "tags"
    /\ id3_offset = 0
    /\ id3_pos = 0
    /\ id3tags = << >>

\* std::regex_match against [A-Z0-9] of one byte.
IsFrameIdChar(b) == b \in 48..57 \/ b \in 65..90

\* pos < frame_size, an int that the comparison converts to unsigned.
BelowFrameSize(pos, frame_size) == frame_size < 0 \/ pos < frame_size

\* The bytes of a frame's content that are not copied: none for a tag that is
\* not id3v2, the encoding byte of a text frame, five bytes of a comment.
ContentSkipped(key, id3v2) ==
    IF ~id3v2 THEN 0 ELSE IF key[1] = 84 THEN 1 ELSE 5

\* The frame loop reads a byte outside the buffer.  Each turn looks at
\* contents[ pos ], copies the four bytes of the key, decodes the size, skips 6
\* bytes and, for a key that starts with 'T' or is "COMM", copies the content.
RECURSIVE FramesReadOutside(_, _, _, _)
FramesReadOutside(buf, pos, frame_size, id3v2) ==
    IF pos >= Len(buf) THEN TRUE
    ELSE IF ~(IsFrameIdChar(buf[pos + 1]) /\ BelowFrameSize(pos, frame_size)) THEN FALSE
    ELSE IF pos + 8 > Len(buf) THEN TRUE
    ELSE LET field_size == read_as_uint32_big(buf, pos + 4, 0, 0)
             key == SubSeq(buf, pos + 1, pos + 4)
             copies == /\ key[1] = 84 \/ key = <<67, 79, 77, 77>>
                       /\ field_size > ContentSkipped(key, id3v2)
         IN IF copies /\ pos + 10 + field_size > Len(buf) THEN TRUE
            ELSE FramesReadOutside(buf, pos + 10 + field_size, frame_size, id3v2)

\* What a step of the walk leaves alone.
tags_rest == <<dispatch_vars, cli_vars, file_vars, path_vars, wav_vars, status_vars,
               pair_vars, id3_bytes>>

\* One turn of the loop of get_id3tags.  Without the "ID3" marker at pos the loop
\* ends and last_pos = pos.  Otherwise the flag byte decides: get_flags fills
\* flags only when the low four bits are clear, and only then offset and
\* extended_size are assigned, so that for any other flag byte the three are
\* read without ever having been written.  The frame loop moves pos, which is
\* then overwritten: pos = id3tag.offset + 10.  A read outside the buffer ends
\* the process or delivers bytes that are not looked at again.
get_id3tags ==
    /\ id3_pc = "tags"
    /\ Len(id3tags) < MaxTags
    /\ IF id3_pos + 3 > Len(id3_bytes)
       THEN /\ id3_pc' \in {"aborted", "header"}
            /\ UNCHANGED <<id3_offset, id3_pos, id3tags>>
       ELSE IF SubSeq(id3_bytes, id3_pos + 1, id3_pos + 3) # ID3
       THEN /\ id3_pc' = "header"
            /\ UNCHANGED <<id3_offset, id3_pos, id3tags>>
       ELSE \E flag \in (IF id3_pos + 6 <= Len(id3_bytes) THEN {id3_bytes[id3_pos + 6]}
                         ELSE FlagBytes) :
            LET id3v2 == flag % 16 = 0
                header_outside == id3_pos + (IF id3v2 THEN 10 ELSE 6) > Len(id3_bytes)
            IN \E offset \in (IF id3v2 /\ ~header_outside
                              THEN {read_as_uint32_big(id3_bytes, id3_pos + 6, 0, 0)}
                              ELSE Indeterminate32),
                  footer \in (IF id3v2 THEN {(flag \div 16) % 2 = 1} ELSE BOOLEAN),
                  extended \in (IF id3v2 THEN {(flag \div 64) % 2 = 1} ELSE {FALSE}),
                  garbage \in Indeterminate32 :
                  LET reads_size == id3v2 /\ extended
                      size_outside == reads_size /\ id3_pos + 14 > Len(id3_bytes)
                      extended_size ==
                          IF ~id3v2 THEN garbage
                          ELSE IF ~extended \/ size_outside THEN 0
                          ELSE read_as_uint32_big(id3_bytes, id3_pos + 10, 0, 0)
                      frames_at == IF id3v2 THEN id3_pos + 10 + extended_size
                                   ELSE id3_pos + 5
                      frame_size == offset - extended_size - (IF footer THEN 10 ELSE 0)
                      outside ==
                          \/ header_outside
                          \/ size_outside
                          \/ FramesReadOutside(id3_bytes, frames_at, frame_size, id3v2)
                  IN /\ id3_pc' \in (IF outside THEN {"aborted", "tags"} ELSE {"tags"})
                     /\ IF id3_pc' = "aborted"
                        THEN UNCHANGED <<id3_offset, id3_pos, id3tags>>
                        ELSE /\ id3_offset' = offset
                             /\ id3tags' = Append(id3tags,
                                                  [start |-> id3_pos, offset |-> offset,
                                                   footer |-> footer, id3v2 |-> id3v2])
                             /\ id3_pos' = offset + 10
    /\ UNCHANGED tags_rest

\* get_mp3header( contents, pos, header ): false at or behind the end of the
\* buffer and for a byte that is not 0xFF; otherwise the four bytes that follow
\* are read, inside the buffer or not.
get_mp3header ==
    /\ id3_pc = "header"
    /\ IF id3_pos >= Len(id3_bytes) THEN id3_pc' = "invalid"
       ELSE IF id3_bytes[id3_pos + 1] # 255 THEN id3_pc' = "invalid"
       ELSE IF id3_pos + 5 > Len(id3_bytes) THEN id3_pc' \in {"aborted", "valid"}
       ELSE id3_pc' = "valid"
    /\ UNCHANGED <<tags_rest, id3_offset, id3_pos, id3tags>>

Mp3FileWrapper ==
    \/ get_id3tags
    \/ get_mp3header

SpecTags == TagsInit /\ [][Mp3FileWrapper]_vars

----------------------------------------------------------------------------
\* An encoder whose caller does not stop after one run.  Encoder keeps no record
\* of what was called on it: start_encoding can be called on an instance that was
\* never scanned and on one whose run has ended, and does then what it does on any
\* call (the empty-set check, the reset of the flag, the build of the job map, a
\* new set of threads).

\* start_encoding is called once more, no thread of an earlier run being left.
start_encoding_Again ==
    /\ ~crashed
    /\ main_pc \in {"constructed", "returned"}
    /\ Live = {}
    /\ IF m_input_files = {}
         THEN /\ ret' = ERROR_NOT_FOUND
              /\ main_pc' = "returned"
              /\ UNCHANGED <<m_cancelled, m_to_be_encoded_files, spawn_i, join_i,
                             join_err, pc, local_vars, ghost_vars>>
         ELSE /\ m_cancelled' = FALSE
              /\ m_to_be_encoded_files' = [f \in m_input_files |-> FALSE]
              /\ main_pc' = "spawn"
              /\ ret' = NoValue
              /\ spawn_i' = 0
              /\ join_i' = 0
              /\ join_err' = FALSE
              /\ pc' = [w \in Workers |-> "none"]
              /\ found_file' = [w \in Workers |-> FALSE]
              /\ input_file' = [w \in Workers |-> 0]
              /\ cancelled_local' = [w \in Workers |-> FALSE]
              /\ invoked' = [f \in Files |-> 0]
              /\ results' = [f \in Files |-> NoValue]
              /\ cancel_in_run' = FALSE
              /\ cancel_unclaimed' = FALSE
              /\ late_claims' = [w \in Workers |-> 0]
    /\ UNCHANGED <<config_vars, process_mutex, cancel_ret, crashed>>

NextReuse ==
    \/ Next
    \/ start_encoding_Again

SpecReuse == Init /\ [][NextReuse]_vars

----------------------------------------------------------------------------
\* Encoder::start_encoding statement by statement at its entry: another thread
\* can run between the call and the store to m_cancelled.

\* The call is made and the emptiness check of line 143 is passed (or returns).
start_encoding_Invoked ==
    /\ ~crashed
    /\ main_pc = "ready"
    /\ IF m_input_files = {}
         THEN /\ ret' = ERROR_NOT_FOUND
              /\ main_pc' = "returned"
         ELSE /\ main_pc' = "entered"
              /\ ret' = ret
    /\ cancel_in_run' = FALSE
    /\ cancel_unclaimed' = FALSE
    /\ late_claims' = [w \in Workers |-> 0]
    /\ UNCHANGED <<config_vars, m_cancelled, m_to_be_encoded_files, process_mutex,
                   spawn_i, join_i, cancel_ret, pc, local_vars, invoked, results,
                   crashed, join_err>>

\* m_cancelled = false; m_to_be_encoded_files.clear(); one false entry per file.
start_encoding_Reset ==
    /\ ~crashed
    /\ main_pc = "entered"
    /\ m_cancelled' = FALSE
    /\ m_to_be_encoded_files' = [f \in m_input_files |-> FALSE]
    /\ main_pc' = "spawn"
    /\ UNCHANGED <<config_vars, process_mutex, spawn_i, join_i, ret, cancel_ret, pc,
                   local_vars, ghost_vars, crashed, join_err>>

\* cancel_encoding called and returned while start_encoding is between its
\* entry and the store of line 147.
cancel_encoding_AtEntry ==
    /\ ~crashed
    /\ main_pc = "entered"
    /\ m_cancelled' = TRUE
    /\ cancel_ret' = ERROR_CANCELLED
    /\ cancel_in_run' = TRUE
    /\ UNCHANGED <<config_vars, m_to_be_encoded_files, process_mutex, main_vars, pc,
                   local_vars, invoked, results, cancel_vars, crashed>>

NextEntry ==
    \/ scan_input_directory
    \/ start_encoding_Invoked
    \/ start_encoding_Reset
    \/ SpawnAndJoin
    \/ JoinWorkerFails
    \/ ReturnJoined
    \/ cancel_encoding
    \/ cancel_encoding_AtEntry
    \/ \E w \in Workers : Worker(w)

SpecEntry == Init /\ [][NextEntry]_vars

----------------------------------------------------------------------------
\* Encoder::on_encoding_status (src/core/Encoder.h) called by several workers

\* The status callbacks one worker makes.
MaxEvents == 2

\* The k-th line worker w reports (key + " " + value).
StatusLine(w, k) == [thread_id |-> w, seq |-> k]

\* Every worker is inside process_single_file, about to report.
StatusInit ==
    /\ directory = NoValue
    /\ scan_ret = NoValue
    /\ m_input_files = {}
    /\ m_thread_number = MaxThreads
    /\ main_pc = "constructed"
    /\ DispatcherIdle
    /\ psf_format = NoValue
    /\ FileIdle
    /\ PathIdle
    /\ WavIdle
    /\ Id3Idle
    /\ CliIdle
    /\ PairIdle
    /\ TagsIdle
    /\ m_mutex = 0
    /\ status_pc = [w \in Workers |-> "process"]
    /\ status_end = [w \in Workers |-> 0]
    /\ status_sent = [w \in Workers |-> 0]

\* What a status callback leaves alone.
status_rest == <<dispatch_vars, path_vars, wav_vars, id3_vars, cli_vars, pair_vars, tags_vars,
                 psf_format,
                 psf_pc, psf_file, psf_step, psf_channels, psf_held, psf_freed,
                 psf_double, written, psf_results>>

\* process_single_file calls status_cb, which calls on_encoding_status; after its
\* last report the call returns.
StatusCall(w) ==
    /\ status_pc[w] = "process"
    /\ status_pc' = [status_pc EXCEPT ![w] =
                         IF status_sent[w] < MaxEvents THEN "guard" ELSE "returned"]
    /\ UNCHANGED <<status_rest, m_status, m_mutex, status_end, status_sent>>

\* Mutant of StatusLockFree: the guard excludes nobody.
StatusLockFree_NoExclusion == TRUE

\* std::lock_guard<std::mutex> guard(m_mutex) returns only when m_mutex is free.
StatusLockFree == m_mutex = 0

StatusGuard(w) ==
    /\ status_pc[w] = "guard"
    /\ StatusLockFree
    /\ m_mutex' = w
    /\ status_pc' = [status_pc EXCEPT ![w] = "read"]
    /\ UNCHANGED <<status_rest, m_status, status_end, status_sent>>

\* m_status.emplace_back(log), first half: the end of the vector is read.
StatusRead(w) ==
    /\ status_pc[w] = "read"
    /\ status_end' = [status_end EXCEPT ![w] = Len(m_status)]
    /\ status_pc' = [status_pc EXCEPT ![w] = "write"]
    /\ UNCHANGED <<status_rest, m_status, m_mutex, status_sent>>

\* m_status.emplace_back(log), second half: the line is stored at the end that
\* was read, and the end moves behind it.
StatusWrite(w) ==
    /\ status_pc[w] = "write"
    /\ m_status' = SubSeq(m_status, 1, status_end[w])
                       \o <<StatusLine(w, status_sent[w] + 1)>>
    /\ status_pc' = [status_pc EXCEPT ![w] = "release"]
    /\ UNCHANGED <<status_rest, m_mutex, status_end, status_sent>>

\* The guard goes out of scope and on_encoding_status returns.
StatusRelease(w) ==
    /\ status_pc[w] = "release"
    /\ m_mutex' = (IF m_mutex = w THEN 0 ELSE m_mutex)
    /\ status_sent' = [status_sent EXCEPT ![w] = @ + 1]
    /\ status_pc' = [status_pc EXCEPT ![w] = "process"]
    /\ UNCHANGED <<status_rest, m_status, status_end>>

on_encoding_status(w) ==
    \/ StatusCall(w)
    \/ StatusGuard(w)
    \/ StatusRead(w)
    \/ StatusWrite(w)
    \/ StatusRelease(w)

NextStatus == \E w \in Workers : on_encoding_status(w)

SpecStatus == StatusInit /\ [][NextStatus]_vars

----------------------------------------------------------------------------
\* The main function of the command line tool: the one of src/unnamed/part_011,
\* which creates the encoder through the factory, and the older one of
\* src/main.cpp, which constructs an EncoderMP3.  It drives one encoder through
\* scan_input_directory and start_encoding and never calls cancel_encoding.

Mains == {"part_011", "main.cpp"}

\* What app.exit( e ) returns for a command line the parser refuses: the exit code
\* of the parser's error (a validation error, a missing required option).
ParseExitCodes == {105, 106}

\* The command lines and surroundings a main function can meet.  The older main has
\* no help option, no output directory and no factory.
Envs(m) ==
    IF m = "part_011"
    THEN [parse : {"ok", "help", "error"}, canonical : BOOLEAN, output_dir : BOOLEAN,
          encoder : BOOLEAN]
    ELSE [parse : {"ok", "error"}, canonical : BOOLEAN, output_dir : {TRUE},
          encoder : {TRUE}]

CliInit ==
    /\ directory = NoValue
    /\ scan_ret = NoValue
    /\ m_input_files = {}
    /\ m_thread_number \in 1..MaxThreads
    /\ main_pc = "constructed"
    /\ DispatcherIdle
    /\ UnitIdle
    /\ psf_format = NoValue
    /\ FileIdle
    /\ PathIdle
    /\ WavIdle
    /\ Id3Idle
    /\ cli_main \in Mains
    /\ cli_env \in Envs(cli_main)
    /\ cli_pc = "start"
    /\ exit_code = 0

\* main returns code.
Exit(code) ==
    /\ cli_pc' = "exited"
    /\ exit_code' = code

\* From the command line to the encoder that is ready to scan.  The older main
\* returns 0 wherever it gives up.
CliSetup ==
    /\ cli_pc = "start"
    /\ IF cli_main = "part_011"
       THEN IF cli_env.parse = "help" THEN Exit(0)
            ELSE IF cli_env.parse = "error" THEN \E code \in ParseExitCodes : Exit(code)
            ELSE IF ~cli_env.canonical THEN Exit(1)
            ELSE IF ~cli_env.output_dir THEN Exit(1)
            ELSE IF ~cli_env.encoder THEN Exit(1)
            ELSE cli_pc' = "scan" /\ UNCHANGED exit_code
       ELSE IF cli_env.parse = "error" THEN Exit(0)
            ELSE IF ~cli_env.canonical THEN Exit(0)
            ELSE cli_pc' = "scan" /\ UNCHANGED exit_code
    /\ UNCHANGED <<dispatch_vars, file_vars, path_vars, wav_vars, id3_vars, unit_vars,
                   cli_main, cli_env>>

\* encoder->scan_input_directory( canonical_input_path )
CliScan ==
    /\ cli_pc = "scan"
    /\ scan_input_directory

\* The checks of the scan's result and of the list of files.
CliAfterScan ==
    /\ cli_pc = "scan"
    /\ main_pc = "ready"
    /\ IF scan_ret # ERROR_NONE THEN Exit(IF cli_main = "part_011" THEN 1 ELSE 0)
       ELSE IF m_input_files = {} THEN Exit(0)
       ELSE cli_pc' = "encode" /\ UNCHANGED exit_code
    /\ UNCHANGED <<dispatch_vars, file_vars, path_vars, wav_vars, id3_vars, unit_vars,
                   cli_main, cli_env>>

\* encoder->start_encoding( ): the calling thread and the workers it creates.
CliEncode ==
    /\ cli_pc = "encode"
    /\ \/ start_encoding
       \/ SpawnAndJoin
       \/ JoinWorkerFails
       \/ ReturnJoined
       \/ \E w \in Workers : Worker(w)

\* The return that follows start_encoding.
CliReturn ==
    /\ cli_pc = "encode"
    /\ main_pc = "returned"
    /\ ~crashed
    /\ Exit(IF cli_main = "part_011" /\ ret # ERROR_NONE THEN 1 ELSE 0)
    /\ UNCHANGED <<dispatch_vars, file_vars, path_vars, wav_vars, id3_vars, unit_vars,
                   cli_main, cli_env>>

main ==
    \/ CliSetup
    \/ CliScan
    \/ CliAfterScan
    \/ CliEncode
    \/ CliReturn

SpecCli == CliInit /\ [][main]_vars

----------------------------------------------------------------------------
\* Properties of the dispatcher of src/core/Encoder.h (specification Spec)

\* The job set of the run.
JobSet == DOMAIN m_to_be_encoded_files

\* start_encoding went through its join loop and returned.
ReturnedJoined ==
    /\ main_pc = "returned"
    /\ m_input_files # {}
    /\ spawn_i = m_thread_number
    /\ join_i = m_thread_number

\* start_encoding returned after every worker was joined successfully.
JoinedAll == ReturnedJoined /\ ~join_err

\* C1: a run in which cancel_encoding is never called, with 1 <= T <= N threads
\* (all of them created and joined), has invoked process_single_file exactly once
\* for each of the N files when it returns.
C1_EveryFileInvokedOnce ==
    (/\ JoinedAll
     /\ ~cancel_in_run
     /\ m_thread_number >= 1
     /\ m_thread_number <= Cardinality(JobSet))
        => \A f \in JobSet : invoked[f] = 1

\* C2: within one run no file is passed to process_single_file twice: no two
\* workers hold a claim on the same entry, no file is entered more than once, and
\* a file whose attempt has finished (failed or not) stays claimed, so it is never
\* claimed again.
C2_NoFileTwice ==
    /\ \A f \in Files : invoked[f] <= 1
    /\ \A w1, w2 \in Workers :
         (w1 # w2 /\ input_file[w1] # 0) => input_file[w1] # input_file[w2]
    /\ \A f \in JobSet : results[f] # NoValue => m_to_be_encoded_files[f]

\* Two workers have claimed different files, one attempt failed, and the run ended
\* with every file attempted once.
C2_Witness ==
    /\ ReturnedJoined
    /\ \E w1, w2 \in Workers :
         w1 # w2 /\ input_file[w1] # 0 /\ input_file[w2] # 0
    /\ \E f \in JobSet : results[f] = ERROR_FILE
    /\ \A f \in JobSet : invoked[f] = 1

\* C3: every file marked as claimed has been handed to the encode by the time the
\* run ends, whatever the interleaving of the claims with cancel_encoding.
C3_ClaimedIsAttempted ==
    JoinedAll => \A f \in JobSet : m_to_be_encoded_files[f] => invoked[f] >= 1

\* C4: a worker holds process_mutex exactly while it scans for and marks an entry
\* (positions scan, mark, unlock), never while it is inside process_single_file.
C4_LockOnlyAroundClaim ==
    \A w \in Workers :
        /\ pc[w] = "process" => process_mutex # w
        /\ process_mutex = w <=> pc[w] \in {"scan", "mark", "unlock"}

\* Two workers are inside process_single_file at once, for different files.
C4_Witness ==
    \E w1, w2 \in Workers :
        /\ w1 # w2
        /\ pc[w1] = "process" /\ pc[w2] = "process"
        /\ input_file[w1] # input_file[w2]
        /\ process_mutex = 0

\* C5: the flag is observed only at the loop top: a worker exits only from there,
\* and a worker inside process_single_file leaves it only by the call returning
\* (the file's result is recorded and the worker is back at the loop top), which
\* stays possible whatever the flag says.
C5_InFlightRunsToCompletion ==
    /\ [](\A w \in Workers : (pc[w] = "process" /\ ~crashed) => ENABLED ProcessReturn(w))
    /\ [][\A w \in Workers :
            /\ (pc[w] # "exited" /\ pc'[w] = "exited") => pc[w] = "top"
            /\ (pc[w] = "process" /\ pc'[w] # "process") =>
                   (pc'[w] = "top" /\ results'[input_file[w]] # NoValue)]_vars

\* cancel_encoding was called during the run while a worker is inside process_single_file.
C5_Witness ==
    \E w \in Workers : pc[w] = "process" /\ m_cancelled /\ cancel_in_run /\ ~crashed

\* C6: a call of cancel_encoding sets the flag and returns ERROR_CANCELLED, and
\* it touches neither the mutex nor any worker.
C6_CancelReturnsCancelled ==
    [][mp3_cancel_encoding =>
          /\ m_cancelled'
          /\ cancel_ret' = ERROR_CANCELLED
          /\ process_mutex' = process_mutex
          /\ pc' = pc
          /\ ~crashed']_vars

\* C7: a run in which cancel_encoding was called while a file was unclaimed
\* terminates (start_encoding returns), and no more than N encodes are started.
C7_CancelledRunTerminates ==
    /\ cancel_unclaimed ~> (main_pc = "returned" \/ crashed)
    /\ [](\A f \in Files : invoked[f] <= 1)

\* C8: start_encoding never returns while a worker it created is still running.
C8_ReturnsOnlyAfterJoin ==
    main_pc = "returned" => Live = {}

\* C9: once the workers have been joined start_encoding returns ERROR_NONE,
\* whatever the per-file results were.
C9_JoinedReturnsNone ==
    ReturnedJoined => ret = ERROR_NONE

\* The run went through the join loop and every file of a job set of two or more failed.
C9_Witness ==
    /\ ReturnedJoined
    /\ Cardinality(JobSet) >= 2
    /\ \A f \in JobSet : results[f] = ERROR_FILE

\* C10: a failed file does not keep the other files from being attempted: a run
\* with at least one worker and no cancellation has attempted every file when it
\* returns, whatever the per-file results.
C10_FailureDoesNotStopOthers ==
    (JoinedAll /\ ~cancel_in_run /\ m_thread_number >= 1)
        => \A f \in JobSet : invoked[f] >= 1

\* C11: with an empty job set start_encoding returns ERROR_NOT_FOUND, no worker
\* has been created and process_single_file has not been invoked.
C11_EmptyJobSetNotFound ==
    (main_pc = "returned" /\ m_input_files = {}) =>
        /\ ret = ERROR_NOT_FOUND
        /\ Created = {}
        /\ m_to_be_encoded_files = << >>
        /\ \A f \in Files : invoked[f] = 0

\* start_encoding has returned for an encoder with two threads and no file.
C11_Witness ==
    /\ main_pc = "returned"
    /\ m_input_files = {}
    /\ m_thread_number = MaxThreads
    /\ ret = ERROR_NOT_FOUND

\* C12: with a non-empty job set, once the creation loop has ended without a
\* failed pthread_create exactly m_thread_number workers have been created,
\* whatever the number of files.
C12_SpawnsThreadNumber ==
    (m_input_files # {} /\ ret # ERROR_PTHREAD_CREATE /\ main_pc \in {"join", "returned"})
        => Cardinality(Created) = m_thread_number

\* The creation loop has ended with more workers than files.
C12_Witness ==
    /\ main_pc = "join"
    /\ Cardinality(m_input_files) = 1
    /\ m_thread_number = 2
    /\ Cardinality(Created) = 2

\* C13: a failed pthread_join makes start_encoding return ERROR_PTHREAD_JOIN, and
\* a failed pthread_create makes it return ERROR_PTHREAD_CREATE, never ERROR_NONE.
C13_ThreadFailureReported ==
    (main_pc = "returned" /\ m_input_files # {}) =>
        /\ join_err => ret = ERROR_PTHREAD_JOIN
        /\ spawn_i < m_thread_number => ret = ERROR_PTHREAD_CREATE

\* C14: scan_input_directory returns ERROR_NOT_FOUND whenever the directory is
\* missing or the scan yields no valid file (an empty directory, or one whose
\* entries are all rejected by the WAV validation).
C14_NoValidFileIsNotFound ==
    (scan_ret # NoValue /\ (directory = "missing" \/ m_input_files = {}))
        => scan_ret = ERROR_NOT_FOUND

----------------------------------------------------------------------------
\* Properties of the per-file code (specification SpecFile)

\* The positions in m_status of the events of a kind emitted for file f.
EventsOf(kind, f) ==
    {i \in DOMAIN m_status : m_status[i].kind = kind /\ m_status[i].file = f}

\* The encoders whose per-file code is process_single_file.
SingleFileFormats == {"MP3", "FLAC"}

\* C15: when process_single_file has returned an error code for a file, an
\* "Error" event containing the input file's name has been emitted for it and no
\* "Complete" event has.
C15_FailureEmitsError ==
    psf_format \in SingleFileFormats =>
        \A f \in Files :
            psf_results[f] \notin {NoValue, ERROR_NONE} =>
                /\ \E i \in EventsOf("Error", f) : m_status[i].names_input
                /\ EventsOf("Complete", f) = {}

C18_ResourcesReleased ==
    psf_pc \in {"idle", "exited"} => (psf_held = {} /\ ~psf_double)

----------------------------------------------------------------------------
\* Properties of the output path (specification SpecPath)

\* b is the part of path after its last separator (the whole path without one).
IsBasename(b, path, separators) ==
    /\ \A i \in 1..Len(b) : b[i] \notin separators
    /\ \/ b = path
       \/ \E d \in 0..(Len(path) - 1) :
            /\ path[d + 1] \in separators
            /\ b = SubSeq(path, d + 2, Len(path))

\* st is b with everything from its last dot removed (b itself without a dot).
IsStem(st, b) ==
    \/ st = b /\ \A i \in 1..Len(b) : b[i] # "."
    \/ \E k \in 1..Len(b) :
         /\ b[k] = "."
         /\ \A j \in (k + 1)..Len(b) : b[j] # "."
         /\ st = SubSeq(b, 1, k - 1)

\* The output path is output_dir + "/" + stem + extension for the basename that
\* the given separators delimit.
OutputIsStemPath(separators) ==
    psf_output_file # << >> =>
        \E lo \in 1..(Len(psf_input_path) + 1), hi \in 0..Len(psf_input_path) :
            /\ IsBasename(SubSeq(psf_input_path, lo, Len(psf_input_path)),
                          psf_input_path, separators)
            /\ IsStem(SubSeq(psf_input_path, lo, hi),
                      SubSeq(psf_input_path, lo, Len(psf_input_path)))
            /\ psf_output_file =
                   psf_output_dir \o <<"/">> \o SubSeq(psf_input_path, lo, hi)
                       \o psf_extension

----------------------------------------------------------------------------
\* Properties of WaveFileWrapper::validate (specification SpecWav)

\* C19: for every file shorter than 44 bytes, the empty one included, validate
\* returns invalid: it does not abort, and it reads no byte outside the buffer.
C19_ShortBufferInvalid ==
    (wav_exists /\ Len(wav_bytes) < MIN_HEADER_SIZE /\ wav_pc # "called") =>
        /\ wav_pc = "returned"
        /\ ~wav_valid
        /\ ~wav_oob

\* The four bytes of buf that start at offset i (counted from 1) are tag.
TagAt(buf, i, tag) == i + 3 <= Len(buf) /\ SubSeq(buf, i, i + 3) = tag

\* "RIFF", "WAVE", "fmt " and "data" occur in buf one after the other.
TagsInOrder(buf) ==
    \E i \in 1..Len(buf) :
        /\ TagAt(buf, i, RIFF)
        /\ \E j \in (i + 4)..Len(buf) :
              /\ TagAt(buf, j, WAVE)
              /\ \E k \in (j + 4)..Len(buf) :
                    /\ TagAt(buf, k, FMT)
                    /\ \E l \in (k + 4)..Len(buf) : TagAt(buf, l, DATA)

\* C20: validate returns valid only for a buffer in which the tags "RIFF", "WAVE",
\* "fmt " and "data" are found in that order, and then the four tags of the header
\* it filled are these literals.
C20_ValidHasTagsInOrder ==
    (wav_pc = "returned" /\ wav_valid) =>
        /\ TagsInOrder(contents)
        /\ header.riff = RIFF
        /\ header.wave = WAVE
        /\ header.fmt = FMT
        /\ header.data = DATA

\* C21: validate returns valid only for a file whose fmt chunk declares format 1
\* (PCM): the header of a successful validate has format = 1.
C21_ValidIsPCM ==
    (wav_pc = "returned" /\ wav_valid) => header.format = 1

\* C22: validate returns invalid whenever a chunk's declared size carries the chunk
\* walk beyond the end of the buffer, and it never reads a byte at an index at or
\* beyond the buffer's length.
C22_NoOverrunNoOutsideRead ==
    /\ ~wav_oob
    /\ (wav_pc = "returned" /\ wav_valid) => ~wav_overrun

\* The data payload of the file validate accepted: data_size bytes that follow the
\* size field of the "data" chunk, where validate left pos.
PayloadStart == 4 * wav_pos.q + wav_pos.r
DataSize == 4 * header.data_size.q + header.data_size.r

\* The 16-bit little-endian word number w (from 0) of the payload.
PayloadWord(w) ==
    Int16(wav_bytes[PayloadStart + 2 * w + 1], wav_bytes[PayloadStart + 2 * w + 2])

\* validate accepted a PCM file of one or two channels and 16 bits per sample whose
\* payload is whole, and get_wave_data has run on it.
GotValidWave ==
    /\ wav_pc = "got"
    /\ wav_valid
    /\ ~wav_oob
    /\ header.format = 1
    /\ header.channels \in {1, 2}
    /\ header.bits_per_sample = 16
    /\ header.block_align = 2 * header.channels
    /\ header.data_size.q <= MaxPayload
    /\ DataSize % header.block_align = 0
    /\ PayloadStart + DataSize <= Len(wav_bytes)

\* left and right hold the samples of the payload.
SamplesOfPayload ==
    /\ wav_got
    /\ Len(left) = DataSize \div header.block_align
    /\ header.channels = 2 =>
          /\ Len(right) = DataSize \div header.block_align
          /\ \A i \in 1..Len(left) :
                /\ left[i] = PayloadWord(2 * (i - 1))
                /\ right[i] = PayloadWord(2 * (i - 1) + 1)

\* C23: for a valid WAV file of one or two channels, 16 bits per sample and a
\* data_size that is a multiple of block_align, get_wave_data returns
\* data_size / block_align samples per channel, and for two channels left[i] and
\* right[i] are the even and the odd 16-bit word of sample pair i of the payload.
C23_SamplesRoundTrip == GotValidWave => SamplesOfPayload

\* C24: when the file holds fewer payload bytes than data_size declares,
\* get_wave_data reports failure.
C24_ShortPayloadFails ==
    (wav_pc = "got" /\ wav_valid /\ header.data_size.q <= MaxPayload
        /\ Len(wav_bytes) < PayloadStart + DataSize) => ~wav_got

----------------------------------------------------------------------------
\* Properties of Helper::read_as_uint32_big (specification SpecId3)

----------------------------------------------------------------------------
\* Properties of the command line tool (specification SpecCli)

\* What the tool may answer with exit code 1: an input directory that is not valid
\* (no canonical path, or the scan does not find or cannot read it), an output
\* directory that cannot be created, a format without encoder, a run that
\* returned an error.
ExitOneCause ==
    \/ ~cli_env.canonical
    \/ ~cli_env.output_dir
    \/ ~cli_env.encoder
    \/ scan_ret = ERROR_NOT_FOUND
    \/ ret \notin {NoValue, ERROR_NONE}

----------------------------------------------------------------------------
\* Properties of an encoder instance under any sequence of calls (SpecReuse)

\* The state of the dispatcher: Idle until a scan, Running from the build of the
\* job map to the return of start_encoding, Ended (Completed or Cancelled) once a
\* run has returned, Ready otherwise.  A scan is one step, so that Scanning is
\* passed within it; a start_encoding that returns ERROR_NOT_FOUND has run nothing
\* and leaves the state as it was.
DispatcherState ==
    IF main_pc \in {"spawn", "join"} THEN "Running"
    ELSE IF main_pc = "returned" /\ ret # ERROR_NOT_FOUND THEN "Ended"
    ELSE IF directory = NoValue THEN "Idle"
    ELSE "Ready"

StateChanges == {<<"Idle", "Ready">>, <<"Ready", "Running">>, <<"Running", "Ended">>}

\* C27: the dispatcher's state changes only along Idle -> Scanning -> Ready ->
\* Running -> Completed or Cancelled: never from Completed or Cancelled back to
\* Running, never from Idle directly to Running.
C27_LifecycleOnly ==
    [][DispatcherState' # DispatcherState =>
           <<DispatcherState, DispatcherState'>> \in StateChanges]_vars

----------------------------------------------------------------------------
\* Properties of the job map during a run (Spec)

\* Worker w makes the one change the claim loop makes to the job map: it holds
\* process_mutex and turns the flag of the entry it stopped at from false to true.
ClaimedUnderLock(w) ==
    /\ process_mutex = w
    /\ input_file[w] \in DOMAIN m_to_be_encoded_files
    /\ ~m_to_be_encoded_files[input_file[w]]
    /\ m_to_be_encoded_files' =
           [m_to_be_encoded_files EXCEPT ![input_file[w]] = TRUE]

C29_NoneMeansAllAttempted ==
    (main_pc = "returned" /\ ret = ERROR_NONE) =>
        \A f \in JobSet : invoked[f] = 1

----------------------------------------------------------------------------
\* Properties of a cancellation that arrives during the call (SpecEntry)

\* C30: a cancellation is never lost: once cancel_encoding has returned after
\* start_encoding was invoked, every loop-top check a worker makes in that run
\* sees the flag set, so the worker leaves its loop instead of starting another
\* claim iteration.
C30_CancellationNeverLost ==
    [][\A w \in Workers :
           (cancel_in_run /\ pc[w] = "top") => pc'[w] \in {"top", "exited"}]_vars

----------------------------------------------------------------------------
\* Properties of the claims made after a cancellation (Spec)

\* C31: after cancel_encoding has returned during a run (the job map is built,
\* start_encoding has not returned), each worker claims at most one further file,
\* the claim of the iteration whose loop-top check preceded the cancellation, so
\* at most thread_number files are claimed after the cancellation.
C31_OneLateClaimPerWorker ==
    /\ \A w \in Workers : late_claims[w] <= 1
    /\ Cardinality({w \in Workers : late_claims[w] > 0}) <= m_thread_number

\* Both workers passed their loop-top check, the run was cancelled, and each of
\* them went on to claim one file; a third file stays unclaimed.
C31_Witness ==
    /\ cancel_in_run
    /\ m_cancelled
    /\ \A w \in Workers : late_claims[w] = 1
    /\ Unclaimed # {}

----------------------------------------------------------------------------
\* Properties of the job-map lock in the per-format worker loops (SpecMP3)

\* C32: every acquisition of process_mutex is followed by its release on every
\* path, the path of a set cancellation flag included: no worker has exited while
\* it holds the lock, so no other worker waits for it forever.
C32_NoExitHoldingLock ==
    \A w \in Workers : pc[w] = "exited" => process_mutex # w

----------------------------------------------------------------------------
\* Properties of the status log under concurrent workers (SpecStatus)

\* The lines of worker w that are in the log: its reports that have returned,
\* and the one it has written and not yet returned from.
Reported(w) ==
    1..(status_sent[w] + (IF status_pc[w] = "release" THEN 1 ELSE 0))

\* Every line reported so far is in the log exactly once, and nothing else is.
NoEventLost ==
    /\ \A w \in Workers : \A k \in Reported(w) :
           Cardinality({i \in DOMAIN m_status : m_status[i] = StatusLine(w, k)}) = 1
    /\ \A i \in DOMAIN m_status :
           \E w \in Workers : \E k \in Reported(w) : m_status[i] = StatusLine(w, k)

\* A change of the log is one line appended by the worker that holds m_mutex.
AppendUnderLock ==
    m_status' # m_status =>
        \E w \in Workers :
            /\ m_mutex = w
            /\ m_status' = Append(m_status, StatusLine(w, status_sent[w] + 1))

\* C33: the status log is append-only under concurrent workers: every status
\* event is appended exactly once while the status lock is held, existing
\* entries are never removed or altered, and no event is lost when several
\* workers report at the same time.
C33_StatusLogAppendOnly == []NoEventLost /\ [][AppendUnderLock]_vars

\* Two workers report at the same time: one is inside emplace_back with the lock,
\* the other waits at the guard, and the log already holds lines of both.
C33_Witness ==
    /\ \E w \in Workers : status_pc[w] = "write" /\ m_mutex = w
    /\ \E v \in Workers : status_pc[v] = "guard"
    /\ \A w \in Workers : \E i \in DOMAIN m_status : m_status[i].thread_id = w

----------------------------------------------------------------------------
\* Properties of the output paths of one run (SpecPair)

\* C34: no two distinct input files of one run are written to the same output
\* path, for every set of files the recursive scan can return, files with equal
\* basenames in different subdirectories included.
C34_DistinctOutputPaths ==
    (psf_output_file # << >> /\ other_output_file # << >>) =>
        psf_output_file # other_output_file

----------------------------------------------------------------------------
\* Properties of the chunk walk of WaveFileWrapper::validate (SpecWav)

\* The answer of a walk that finds nothing.
NoChunk == 0 - 1

\* The size field of the chunk at offset p (from 0) of buf, or NoChunk when it
\* is larger than any buffer.
ChunkSize(buf, p) ==
    IF buf[p + 7] # 0 \/ buf[p + 8] # 0 THEN NoChunk ELSE buf[p + 5] + 256 * buf[p + 6]

\* The offset of the first chunk with this tag that a walk over whole chunks
\* (tag, size field, size bytes of payload) meets from offset p on, or NoChunk.
RECURSIVE FindChunk(_, _, _)
FindChunk(buf, p, tag) ==
    IF p + 8 > Len(buf) THEN NoChunk
    ELSE IF SubSeq(buf, p + 1, p + 4) = tag THEN p
    ELSE IF ChunkSize(buf, p) < 0 THEN NoChunk
    ELSE FindChunk(buf, p + 8 + ChunkSize(buf, p), tag)

FmtChunk(buf) == FindChunk(buf, 12, FMT)

DataChunk(buf) ==
    FindChunk(buf, FmtChunk(buf) + 8 + ChunkSize(buf, FmtChunk(buf)), DATA)

\* buf is a RIFF/WAVE file made of whole chunks with a fmt chunk of at least 16
\* bytes and, after it, a data chunk whose payload is whole.
WellFormedWave(buf) ==
    /\ Len(buf) >= MIN_HEADER_SIZE
    /\ SubSeq(buf, 1, 4) = RIFF
    /\ SubSeq(buf, 9, 12) = WAVE
    /\ FmtChunk(buf) >= 0
    /\ ChunkSize(buf, FmtChunk(buf)) >= 16
    /\ DataChunk(buf) >= 0
    /\ ChunkSize(buf, DataChunk(buf)) >= 0
    /\ DataChunk(buf) + 8 + ChunkSize(buf, DataChunk(buf)) <= Len(buf)

\* C35: in the walk that follows "WAVE" a chunk whose tag is not "fmt " is skipped
\* by its declared size, so a file with whole chunks before the fmt chunk is
\* accepted.
C35_ChunksBeforeFmtSkipped ==
    (wav_pc = "returned" /\ WellFormedWave(contents) /\ FmtChunk(contents) > 12)
        => wav_valid

\* C36: after the fmt chunk every chunk that is not "data" is skipped by exactly
\* its declared size (tag, size field and payload), so the "data" tag is found at
\* a chunk boundary and data_size is the number that follows it.
C36_DataFoundAtChunkBoundary ==
    (wav_pc = "returned" /\ WellFormedWave(contents) /\ FmtChunk(contents) = 12) =>
        /\ wav_valid
        /\ PayloadStart = DataChunk(contents) + 8
        /\ header.data_size.q <= MaxPayload
        /\ DataSize = ChunkSize(contents, DataChunk(contents))

\* C37: for every file validate accepts, get_wave_data starts reading at the
\* first byte of the data payload as the chunk walk located it: the first sample
\* it returns is the first 16-bit word of the payload.
C37_ReadsFromPayloadStart ==
    (/\ wav_pc = "got"
     /\ wav_valid
     /\ wav_got
     /\ ~wav_oob
     /\ header.data_size.q <= MaxPayload
     /\ Len(left) >= 1
     /\ PayloadStart + 2 <= Len(wav_bytes))
        => left[1] = PayloadWord(0)

\* a < b for two uint32_t.
Less32(a, b) == a.q < b.q \/ (a.q = b.q /\ a.r < b.r)

\* C38: validate terminates on every buffer: the turn of the fmt loop, which
\* starts at offset 12, and every turn of the data loop leave the read position
\* strictly greater than they found it (no turn without progress, no wrap-around
\* at 2^32).
C38_PositionStrictlyIncreases ==
    [][/\ (wav_pc = "data_loop" /\ wav_pc' = "data_loop") => Less32(wav_pos, wav_pos')
       /\ (wav_pc = "header" /\ wav_pc' = "data_loop") => Less32(U32(12), wav_pos')]_vars

----------------------------------------------------------------------------
\* Properties of Mp3FileWrapper::get_id3tags (SpecTags)

\* The offset behind a parsed block: its start, the 10 bytes of its header, its
\* declared size, and 10 more bytes if its footer flag is set.
BlockEnd(tag) == tag.start + 10 + tag.offset + (IF tag.footer THEN 10 ELSE 0)

\* C39: after a block that starts at p with declared size S the parser resumes
\* at p + 10 + S, plus 10 if the footer flag is set, where it looks for a further
\* block, and the MPEG frame header is read at the position behind the last block.
C39_ResumesBehindBlock ==
    (/\ id3_pc \in {"tags", "header", "valid", "invalid"}
     /\ id3tags # << >>
     /\ id3tags[Len(id3tags)].id3v2)
        => id3_pos = BlockEnd(id3tags[Len(id3tags)])

\* C40: get_id3tags terminates on every buffer: the position at which the next
\* "ID3" marker is looked for strictly increases from one parsed block to the
\* next, so the same block is never parsed twice.
C40_MarkerPositionIncreases ==
    [][(id3tags' # id3tags /\ id3tags'[Len(id3tags')].id3v2) => id3_pos' > id3_pos]_vars

====
